---- MODULE Spec2Model ----
(***************************************************************************)
(* Model of the newsletter-digest article extraction engine                *)
(* (src/src/processors/extractor.py) and of the configuration it reads     *)
(* (src/config.py).                                                        *)
(*                                                                         *)
(* Text is modelled character by character: a Python str is a sequence of  *)
(* one-character strings, so that lower(), strip(), split(), `in` and      *)
(* startswith() are computed as the code computes them.  Str("abc") spells *)
(* a literal as such a sequence.                                           *)
(*                                                                         *)
(* The HTML handed to extract_from_email is modelled by the tree that      *)
(* BeautifulSoup(html, 'html.parser') builds from it: a sequence of the    *)
(* top-level children of <body>, each a text node or an element with a     *)
(* tag name, an optional href and child nodes.  The empty sequence is the  *)
(* empty string.                                                           *)
(***************************************************************************)
EXTENDS Integers, Sequences, FiniteSets, TLC

VARIABLES
    pc,                 \* which entry point is being exercised and whether it has returned
    html_content,       \* extract_from_email: the html argument (node sequence)
    newsletter_name,    \* extract_from_email: argument
    newsletter_email,   \* extract_from_email / _classify: argument
    received_timestamp, \* extract_from_email: argument
    ran,                \* extract_from_email: the strategies run, in order
    articles,           \* extract_from_email: the candidate list chosen at lines 90-94
    result,             \* extract_from_email: the returned list
    article,            \* _classify: the article argument
    force_essay,        \* _classify: argument
    url,                \* _is_noise_url / _score_link: argument
    anchor_text,        \* _is_noise_url / _score_link: argument
    arg_content,        \* _extract_blurb: argument
    arg_title,          \* _extract_blurb: argument
    arg_bucket,         \* _finalise: argument
    essays,             \* summarize_essays: argument
    raw,                \* _parse_response: argument; response.content[0].text
    expected_count,     \* DigestSummarizer._parse_response: argument
    link_articles,      \* categorize_articles: the articles argument
    arg_soup,           \* _extract_by_sections / _extract_by_links / _extract_fallback: argument
    arg_element,        \* _best_link_in: argument
    ret,                \* return value of a static method
    attempt,            \* call_claude: the loop variable
    exc,                \* call_claude: the exception the last create() raised
    wait,               \* call_claude: the last wait slept, in hundredths of a second
    calls,              \* call_claude: how often client.messages.create was invoked
    slept,              \* call_claude: how often time.sleep was called
    raised,             \* the exception that left the call, if any
    api_calls,          \* summarizer / categorizer: how often call_claude was called
    db,                 \* Database: the table processed_emails and its AUTOINCREMENT counter
    stored,             \* history: the email_data and returned id of every store_email call
    email_data,         \* store_email: argument
    gmail_message_id,   \* check_if_processed: argument
    runs,               \* NewsletterDigestApp.run: how many runs were started
    closed,             \* NewsletterDigestApp: self.db.close() was called on this app's connection
    messages,           \* get_messages_since: the messages Gmail listed in this run
    raw_emails,         \* run: the fetched emails step 2 has still to look at
    newsletters,        \* run: the list step 2 builds
    todo,               \* run: the newsletters step 3 has still to extract
    all_articles,       \* run: the list step 3 builds
    extracted,          \* history: the run and gmail_message_id of every call of extract_from_email
    digest_data         \* run: the payload of step 6

\* the arguments, which no call assigns to
args == <<html_content, newsletter_name, newsletter_email, received_timestamp,
          article, force_essay, url, anchor_text,
          arg_content, arg_title, arg_bucket, essays, raw, expected_count,
          link_articles, arg_soup, arg_element>>

\* what the extractor's entry points return
outs == <<ran, articles, result, ret>>

\* the state of one call of call_claude
retry == <<attempt, exc, wait, calls, slept, raised>>

\* the use made of the API client
client == <<api_calls>>

\* the database and the calls made on it
\* one application object and its runs
run == <<runs, closed, messages, raw_emails, newsletters, todo, all_articles,
         extracted, digest_data>>

app == <<db, stored, email_data, gmail_message_id, run>>

vars == <<pc, args, outs, retry, client, app>>

-----------------------------------------------------------------------------
(* Python str primitives *)

Str(s) == [i \in 1..Len(s) |-> SubSeq(s, i, i)]

\* s[m-1:n] with Python's clamping of slice bounds
Slice(s, m, n) ==
    LET lo == IF m < 1 THEN 1 ELSE m
        hi == IF n > Len(s) THEN Len(s) ELSE n
    IN  IF lo > hi THEN <<>> ELSE SubSeq(s, lo, hi)

UpperCase == Str("ABCDEFGHIJKLMNOPQRSTUVWXYZ")
LowerCase == Str("abcdefghijklmnopqrstuvwxyz")

\* str.lower() on one character
ToLower == [c \in {UpperCase[i] : i \in 1..26} |->
                LowerCase[CHOOSE i \in 1..26 : UpperCase[i] = c]]

LowerChar(c) == IF c \in DOMAIN ToLower THEN ToLower[c] ELSE c

\* str.lower()
Lower(s) == [i \in 1..Len(s) |-> LowerChar(s[i])]

\* the characters str.strip(), str.split() and the regex \s treat as whitespace
IsSpace(c) == c \in {" ", "\n", "\t"}

\* needle in hay
Contains(hay, needle) ==
    \/ needle = <<>>
    \/ \E i \in 1..(Len(hay) - Len(needle) + 1) :
        /\ hay[i] = needle[1]
        /\ Slice(hay, i, i + Len(needle) - 1) = needle

\* s.startswith(prefix)
StartsWith(s, prefix) ==
    /\ Len(prefix) <= Len(s)
    /\ Slice(s, 1, Len(prefix)) = prefix

\* s.strip()
Strip(s) ==
    LET ink == {i \in 1..Len(s) : ~IsSpace(s[i])}
    IN  IF ink = {} THEN <<>>
        ELSE Slice(s, CHOOSE i \in ink : \A j \in ink : i <= j,
                       CHOOSE i \in ink : \A j \in ink : j <= i)

\* s.strip(c) for a single non-space character c, as in path.strip('/')
StripChar(s, c) ==
    LET keep == {i \in 1..Len(s) : s[i] # c}
    IN  IF keep = {} THEN <<>>
        ELSE Slice(s, CHOOSE i \in keep : \A j \in keep : i <= j,
                       CHOOSE i \in keep : \A j \in keep : j <= i)

\* position of the first c in s, or 0
Find(s, c) ==
    IF \E i \in 1..Len(s) : s[i] = c
    THEN CHOOSE i \in 1..Len(s) : s[i] = c /\ \A j \in 1..(i - 1) : s[j] # c
    ELSE 0

\* s.split(c): the pieces between the occurrences of c (always at least one piece)
SplitOn(s, c) ==
    LET cuts  == {i \in 1..Len(s) : s[i] = c}
        edges == {0} \cup cuts \cup {Len(s) + 1}
        starts == edges \ {Len(s) + 1}
        NextEdge(b) == CHOOSE e \in edges : e > b /\ \A f \in edges : f > b => e <= f
        Nth(k) == CHOOSE b \in starts : Cardinality({x \in starts : x < b}) = k - 1
    IN  [k \in 1..Cardinality(starts) |-> Slice(s, Nth(k) + 1, NextEdge(Nth(k)) - 1)]

\* len(s.split()): the number of maximal runs of non-whitespace
WordCount(s) ==
    Cardinality({i \in 1..Len(s) : ~IsSpace(s[i]) /\ (i = 1 \/ IsSpace(s[i - 1]))})

\* re.sub(r'\s+', ' ', s).strip()
CollapseWs(s) ==
    LET Keep(i) == ~IsSpace(s[i]) \/ (i > 1 /\ ~IsSpace(s[i - 1]))
        idx == SelectSeq([i \in 1..Len(s) |-> i], Keep)
    IN  Strip([k \in 1..Len(idx) |-> IF IsSpace(s[idx[k]]) THEN " " ELSE s[idx[k]]])

-----------------------------------------------------------------------------
(* Constants of extractor.py and config.py *)

PAYWALL_PHRASES ==
    { Str("subscribe to read"), Str("paywall"), Str("premium content"),
      Str("unlock this article"), Str("sign up to continue"), Str("member only"),
      Str("paid subscribers only"), Str("read the full article"), Str("continue reading"),
      Str("behind a paywall"), Str("premium member"), Str("subscription required") }

NOISE_PATH_SEGMENTS ==
    { Str("disclaimer"), Str("legal"), Str("terms"), Str("privacy"), Str("cookie"),
      Str("unsubscribe"), Str("preferences"), Str("settings"), Str("about"),
      Str("contact"), Str("careers"), Str("investors"), Str("ir"), Str("press"),
      Str("login"), Str("signup"), Str("register"), Str("help"), Str("support"),
      Str("faq"), Str("sitemap"), Str("robots"), Str("policy"), Str("policies") }

NOISE_ANCHOR_PHRASES ==
    { Str("disclaimer"), Str("terms of"), Str("privacy policy"), Str("cookie"),
      Str("unsubscribe"), Str("view in browser"), Str("read in browser"),
      Str("click here to unsubscribe"), Str("manage preferences"),
      Str("forward this email"), Str("view online"), Str("web version") }

\* the tuple of substrings _is_noise_url and _score_link look for in the lowered URL
NOISE_DOMAINS ==
    { Str("twitter.com"), Str("facebook.com"), Str("instagram.com"),
      Str("linkedin.com"), Str("youtube.com"), Str("mailto:"), Str("javascript:") }

ARTICLE_SIGNALS ==
    { Str("article"), Str("post"), Str("story"), Str("news"), Str("blog"),
      Str("opinion"), Str("analysis") }

MAX_BLURB_CHARS == 600

MIN_WORD_COUNT == 100

ESSAY_NEWSLETTERS ==
    { Str("stratechery"), Str("hanania"), Str("clouded judgement"), Str("dwarkesh") }

-----------------------------------------------------------------------------
(* urllib.parse.urlparse(u).path, as far as the extractor uses it *)

SchemeChars == Str("abcdefghijklmnopqrstuvwxyzABCDEFGHIJKLMNOPQRSTUVWXYZ0123456789+-.")

UsesParams ==
    { <<>>, Str("ftp"), Str("hdl"), Str("prospero"), Str("http"), Str("imap"),
      Str("https"), Str("shttp"), Str("rtsp"), Str("rtspu"), Str("sip"), Str("sips"),
      Str("mms"), Str("sftp"), Str("tel") }

IsSchemeChar(c) == \E i \in 1..Len(SchemeChars) : SchemeChars[i] = c
IsAlpha(c) == \E i \in 1..26 : c = UpperCase[i] \/ c = LowerCase[i]

\* position of the first character of s that is in the set cs, or Len(s) + 1
FindAny(s, cs) ==
    IF \E i \in 1..Len(s) : s[i] \in cs
    THEN CHOOSE i \in 1..Len(s) : s[i] \in cs /\ \A j \in 1..(i - 1) : s[j] \notin cs
    ELSE Len(s) + 1

\* position of the last c in s, or 0
RFind(s, c) ==
    IF \E i \in 1..Len(s) : s[i] = c
    THEN CHOOSE i \in 1..Len(s) : s[i] = c /\ \A j \in (i + 1)..Len(s) : s[j] # c
    ELSE 0

\* s up to, not including, the first c
CutAt(s, c) == Slice(s, 1, FindAny(s, {c}) - 1)

\* urlsplit first drops tabs and newlines and strips leading blanks
Sanitise(u) == SelectSeq(u, LAMBDA c : c \notin {"\t", "\n"})

LStrip(s) == Slice(s, FindAny(s, {s[i] : i \in 1..Len(s)} \ {" ", "\t", "\n"}), Len(s))

\* urlsplit: the scheme is what precedes the first ':' when that is a scheme name
SchemeAt(u0, colon) ==
    IF /\ colon > 1
       /\ IsAlpha(u0[1])
       /\ \A i \in 1..(colon - 1) : IsSchemeChar(u0[i])
    THEN [scheme |-> Lower(Slice(u0, 1, colon - 1)), rest |-> Slice(u0, colon + 1, Len(u0))]
    ELSE [scheme |-> <<>>, rest |-> u0]

SplitScheme(u0) == SchemeAt(u0, Find(u0, ":"))

\* urlsplit: after '//' the netloc runs to the first of '/', '?', '#'
NetlocAt(s, delim) ==
    [scheme |-> s.scheme,
     netloc |-> Slice(s.rest, 3, delim - 1),
     rest   |-> Slice(s.rest, delim, Len(s.rest))]

SplitNetloc(s) ==
    IF StartsWith(s.rest, <<"/", "/">>)
    THEN NetlocAt(s, FindAny(Slice(s.rest, 3, Len(s.rest)), {"/", "?", "#"}) + 2)
    ELSE [scheme |-> s.scheme, netloc |-> <<>>, rest |-> s.rest]

\* urlparse: _splitparams cuts the path at the first ';' of its last segment
ParamsCut(path, slash, semi) ==
    IF semi = 0 THEN path ELSE Slice(path, 1, slash + semi - 1)

ParamsAt(path, slash) == ParamsCut(path, slash, Find(Slice(path, slash + 1, Len(path)), ";"))

SplitParams(scheme, path) ==
    IF scheme \in UsesParams /\ Find(path, ";") > 0
    THEN ParamsAt(path, RFind(path, "/"))
    ELSE path

\* [ok |-> FALSE] when urlsplit raises ValueError (a netloc with an unmatched
\* bracket), else [ok |-> TRUE, path |-> the path component]
ParseTail(s) ==
    IF (Find(s.netloc, "[") > 0) # (Find(s.netloc, "]") > 0)
    THEN [ok |-> FALSE, path |-> <<>>]
    ELSE [ok |-> TRUE, path |-> SplitParams(s.scheme, CutAt(CutAt(s.rest, "#"), "?"))]

UrlParse(u) == ParseTail(SplitNetloc(SplitScheme(LStrip(Sanitise(u)))))

\* urlparse(lower_url).path.strip('/').split('/'); urlparse raising leaves []
PartsOf(parsed) ==
    IF parsed.ok THEN SplitOn(StripChar(parsed.path, "/"), "/") ELSE <<>>

PathParts(lower_url) == PartsOf(UrlParse(lower_url))

-----------------------------------------------------------------------------
(* Noise / link scorer *)

\* NoiseTests without the path-segment test
NoiseTests_NoPath(lower_url, lower_text, path_parts) ==
    \/ \E domain \in NOISE_DOMAINS : Contains(lower_url, domain)
    \/ \E phrase \in NOISE_ANCHOR_PHRASES : Contains(lower_text, phrase)

\* the body of _is_noise_url once lower_url, lower_text and path_parts are set
NoiseTests(lower_url, lower_text, path_parts) ==
    \/ \E domain \in NOISE_DOMAINS : Contains(lower_url, domain)
    \/ \E k \in 1..Len(path_parts) : path_parts[k] \in NOISE_PATH_SEGMENTS
    \/ \E phrase \in NOISE_ANCHOR_PHRASES : Contains(lower_text, phrase)

_is_noise_url(u, text) == NoiseTests(Lower(u), Lower(text), PathParts(Lower(u)))

\* ScoreTests with the score starting at 0 instead of 1
ScoreTests_NoBase(lower_url, lower_text, path_parts, words) ==
    IF \E domain \in NOISE_DOMAINS : Contains(lower_url, domain) THEN 0
    ELSE IF \E k \in 1..Len(path_parts) : path_parts[k] \in NOISE_PATH_SEGMENTS THEN 0
    ELSE IF \E phrase \in NOISE_ANCHOR_PHRASES : Contains(lower_text, phrase) THEN 0
    ELSE (IF words >= 4 THEN 3 ELSE IF words >= 2 THEN 1 ELSE 0)
         + (IF Cardinality({k \in 1..Len(path_parts) : path_parts[k] # <<>>}) >= 3 THEN 2
            ELSE IF Cardinality({k \in 1..Len(path_parts) : path_parts[k] # <<>>}) >= 2 THEN 1
            ELSE 0)
         + (IF \E sig \in ARTICLE_SIGNALS : Contains(lower_url, sig) THEN 2 ELSE 0)

\* the body of _score_link once lower_url, lower_text and path_parts are set
ScoreTests(lower_url, lower_text, path_parts, words) ==
    IF \E domain \in NOISE_DOMAINS : Contains(lower_url, domain) THEN 0
    ELSE IF \E k \in 1..Len(path_parts) : path_parts[k] \in NOISE_PATH_SEGMENTS THEN 0
    ELSE IF \E phrase \in NOISE_ANCHOR_PHRASES : Contains(lower_text, phrase) THEN 0
    ELSE 1
         + (IF words >= 4 THEN 3 ELSE IF words >= 2 THEN 1 ELSE 0)
         + (IF Cardinality({k \in 1..Len(path_parts) : path_parts[k] # <<>>}) >= 3 THEN 2
            ELSE IF Cardinality({k \in 1..Len(path_parts) : path_parts[k] # <<>>}) >= 2 THEN 1
            ELSE 0)
         + (IF \E sig \in ARTICLE_SIGNALS : Contains(lower_url, sig) THEN 2 ELSE 0)

_score_link(u, text) ==
    ScoreTests(Lower(u), Lower(text), PathParts(Lower(u)), WordCount(text))

PaywallIn(lower) == \E phrase \in PAYWALL_PHRASES : Contains(lower, phrase)

_detect_paywall(text) == PaywallIn(Lower(text))

-----------------------------------------------------------------------------
(* Classification *)

EssayKeywordIn(name_lower) == \E kw \in ESSAY_NEWSLETTERS : Contains(name_lower, kw)

\* _is_essay_newsletter without lowering the name
_is_essay_newsletter_Cased(name) == EssayKeywordIn(name)

_is_essay_newsletter(name) == EssayKeywordIn(Lower(name))

\* a: the article (only its url is read); email: newsletter_email; force: force_essay
\* ClassifyUrl falling off its end instead of returning 'link'
ClassifyUrl_NoDefault(u, email, force) ==
    IF force THEN "essay"
    ELSE IF u = <<>> THEN "essay"
    ELSE IF Find(email, "@") > 0
            /\ Contains(Lower(u), Lower(SplitOn(email, "@")[2]))
         THEN "essay"
    ELSE "None"

\* ClassifyUrl without the no-url rule
ClassifyUrl_NoEmptyRule(u, email, force) ==
    IF force THEN "essay"
    ELSE IF Find(email, "@") > 0
            /\ Contains(Lower(u), Lower(SplitOn(email, "@")[2]))
         THEN "essay"
    ELSE "link"

\* ClassifyUrl comparing the domain without lowering either side
ClassifyUrl_Cased(u, email, force) ==
    IF force THEN "essay"
    ELSE IF u = <<>> THEN "essay"
    ELSE IF Find(email, "@") > 0 /\ Contains(u, SplitOn(email, "@")[2])
         THEN "essay"
    ELSE "link"

\* ClassifyUrl taking any sender with an '@' for self-hosted
ClassifyUrl_AnyDomain(u, email, force) ==
    IF force THEN "essay"
    ELSE IF u = <<>> THEN "essay"
    ELSE IF Find(email, "@") > 0 THEN "essay"
    ELSE "link"

ClassifyUrl(u, email, force) ==
    IF force THEN "essay"
    ELSE IF u = <<>> THEN "essay"
    ELSE IF Find(email, "@") > 0
            /\ Contains(Lower(u), Lower(SplitOn(email, "@")[2]))
         THEN "essay"
    ELSE "link"

_classify(a, email, force) == ClassifyUrl(Strip(a.url), email, force)

-----------------------------------------------------------------------------
(* The parsed document.  A node is a text node [name |-> TextNode, text]   *)
(* or an element [name, href, kids]; href is NoHref when the attribute is  *)
(* absent.  The top-level nodes are the children of <body>, whose parents  *)
(* are <html> and the BeautifulSoup object.                                *)

TextNode == "#text"
NoHref == "NoHref"
\* Python's None where a str is expected: a sequence that is no string
None == <<"None">>

Text(s) == [name |-> TextNode, text |-> s]
Elem(tag, kids) == [name |-> tag, href |-> NoHref, kids |-> kids]
A(href, s) == [name |-> "a", href |-> href, kids |-> <<Text(s)>>]

RECURSIVE Concat(_)
Concat(ss) == IF ss = <<>> THEN <<>> ELSE Head(ss) \o Concat(Tail(ss))

RECURSIVE Join(_, _)
\* sep.join(strs)
Join(strs, sep) ==
    IF strs = <<>> THEN <<>>
    ELSE IF Len(strs) = 1 THEN strs[1]
    ELSE strs[1] \o sep \o Join(Tail(strs), sep)

RECURSIVE Strings(_)
\* the strings under a node in document order, stripped, the empty ones dropped
Strings(n) ==
    IF n.name = TextNode
    THEN LET t == Strip(n.text) IN IF t = <<>> THEN <<>> ELSE <<t>>
    ELSE Concat([k \in 1..Len(n.kids) |-> Strings(n.kids[k])])

\* element.get_text(separator=sep, strip=True)
get_text(n, sep) == Join(Strings(n), sep)

RECURSIVE Descendants(_)
\* the paths (child indexes, from the node down) of all descendants, in document order
Descendants(n) ==
    IF n.name = TextNode THEN <<>>
    ELSE Concat([k \in 1..Len(n.kids) |->
            <<<<k>>>> \o [j \in 1..Len(Descendants(n.kids[k])) |->
                            <<k>> \o Descendants(n.kids[k])[j]]])

RECURSIVE NodeAt(_, _)
NodeAt(n, path) == IF path = <<>> THEN n ELSE NodeAt(n.kids[Head(path)], Tail(path))

\* element.find_all('a', href=True): paths of the anchors below n that carry an href
find_all_a(n) ==
    SelectSeq(Descendants(n),
              LAMBDA p : NodeAt(n, p).name = "a" /\ NodeAt(n, p).href # NoHref)

\* the <body> element of a node sequence
Body(nodes) == Elem("body", nodes)

\* BestLinkStep with >= for > on line 400: the last of equal scores is kept
BestLinkStep_LastWins(u, score, best) ==
    IF ~StartsWith(u, Str("http")) THEN best
    ELSE IF score >= best.score /\ score > 0 THEN [url |-> u, score |-> score]
    ELSE best

\* one turn of the loop of _best_link_in: best is [url, score]
BestLinkStep(u, score, best) ==
    IF ~StartsWith(u, Str("http")) THEN best
    ELSE IF score > best.score THEN [url |-> u, score |-> score]
    ELSE best

AnchorStep(a, best) ==
    BestLinkStep(Strip(a.href), _score_link(Strip(a.href), get_text(a, <<>>)), best)

RECURSIVE BestLinkLoop(_, _, _, _)
\* the for loop of _best_link_in from the i-th anchor on
BestLinkLoop(element, found, i, best) ==
    IF i > Len(found) THEN best.url
    ELSE BestLinkLoop(element, found, i + 1, AnchorStep(NodeAt(element, found[i]), best))

_best_link_in(element) ==
    IF element.name = TextNode THEN None
    ELSE BestLinkLoop(element, find_all_a(element), 1, [url |-> None, score |-> 0])

\* `link or ''`
OrEmpty(link) == IF link = None THEN <<>> ELSE link

-----------------------------------------------------------------------------
(* Blurb and bucket finalisation *)

\* the one character U+2026 (horizontal ellipsis)
Ellipsis == "U+2026"

\* head.rsplit(' ', 1)[0] + ' \u2026', cut being the place of the last ' ' in head
TruncateAt(head, cut) ==
    (IF cut = 0 THEN head ELSE Slice(head, 1, cut - 1)) \o <<" ", Ellipsis>>

\* blurb[:MAX_BLURB_CHARS].rsplit(' ', 1)[0] + ' \u2026'
Truncate(blurb) ==
    TruncateAt(Slice(blurb, 1, MAX_BLURB_CHARS), RFind(Slice(blurb, 1, MAX_BLURB_CHARS), " "))

\* StripTitle comparing blurb and title case-sensitively
StripTitle_Cased(blurb, title) ==
    IF StartsWith(blurb, title)
    THEN Strip(Slice(blurb, Len(title) + 1, Len(blurb)))
    ELSE blurb

\* if blurb.lower().startswith(title.lower()): blurb = blurb[len(title):].strip()
StripTitle(blurb, title) ==
    IF StartsWith(Lower(blurb), Lower(title))
    THEN Strip(Slice(blurb, Len(title) + 1, Len(blurb)))
    ELSE blurb

\* if len(blurb) > MAX_BLURB_CHARS: truncate
Trim(blurb) == IF Len(blurb) > MAX_BLURB_CHARS THEN Truncate(blurb) ELSE blurb

_extract_blurb(content, title) == Trim(CollapseWs(StripTitle(Strip(content), title)))

\* the dict _finalise returns, content being the collapsed raw text
Finalised(bucket, content) ==
    [ title           |-> bucket.title,
      url             |-> bucket.url,
      content         |-> content,
      blurb           |-> Trim(CollapseWs(StripTitle(content, bucket.title))),
      content_snippet |-> Slice(content, 1, 500),
      word_count      |-> WordCount(content),
      author          |-> bucket.author,
      publish_date    |-> bucket.publish_date ]

_finalise(bucket) == Finalised(bucket, CollapseWs(bucket._raw_text))

-----------------------------------------------------------------------------
(* Strategy 1: section-based *)

\* BucketUrl letting every later block with a link replace the url
BucketUrl_Overwrite(current_url, element) ==
    IF _best_link_in(element) # None THEN _best_link_in(element) ELSE current_url

\* lines 144-145: a bucket without url takes the best link of the block
BucketUrl(current_url, element) ==
    IF current_url = <<>> THEN OrEmpty(_best_link_in(element)) ELSE current_url

RECURSIVE SectionsLoop(_, _, _, _)
\* the for loop of _extract_by_sections from the i-th child of body on; arts is
\* `articles`; current is <<>> for None and <<bucket>> for an open bucket
SectionsLoop(children, i, arts, current) ==
    IF i > Len(children)
    THEN IF current # <<>> THEN Append(arts, _finalise(current[1])) ELSE arts
    ELSE
    LET element == children[i]
    IN  IF element.name = TextNode
        THEN SectionsLoop(children, i + 1, arts,
                IF current # <<>>
                THEN <<[current[1] EXCEPT !._raw_text = @ \o Strip(element.text) \o <<" ">>]>>
                ELSE current)
        ELSE IF element.name \in {"h2", "h3"}
        THEN SectionsLoop(children, i + 1,
                IF current # <<>> THEN Append(arts, _finalise(current[1])) ELSE arts,
                << [ title        |-> get_text(element, <<>>),
                     url          |-> OrEmpty(_best_link_in(element)),
                     _raw_text    |-> <<>>,
                     author       |-> None,
                     publish_date |-> None ] >>)
        ELSE SectionsLoop(children, i + 1, arts,
                IF current # <<>>
                THEN <<[current[1] EXCEPT
                        !._raw_text = @ \o get_text(element, <<" ">>) \o <<" ">>,
                        !.url = BucketUrl(@, element)]>>
                ELSE current)

\* _extract_by_sections without the test of line 151
_extract_by_sections_Unfiltered(soup) == SectionsLoop(soup.kids, 1, <<>>, <<>>)

_extract_by_sections(soup) ==
    SelectSeq(SectionsLoop(soup.kids, 1, <<>>, <<>>), LAMBDA a : a.word_count > 0)


-----------------------------------------------------------------------------
(* Strategy 2: link-based *)

BLOCK_PARENTS == {"td", "div", "section", "article", "li", "p"}

\* the parents of the node at path p under soup, nearest first, up to the
\* BeautifulSoup object, whose parent is None
Ancestors(soup, p) ==
    [k \in 1..Len(p) |-> NodeAt(soup, Slice(p, 1, Len(p) - k))]
        \o << Elem("html", <<soup>>), Elem("[document]", <<Elem("html", <<soup>>)>>) >>

\* the content block the `for _ in range(5)` walk ends on
ContentBlock(soup, p) ==
    LET chain == Slice(Ancestors(soup, p), 1, 5)
        block == {k \in 1..Len(chain) : chain[k].name \in BLOCK_PARENTS}
    IN  IF block = {} THEN chain[Len(chain)]
        ELSE chain[CHOOSE k \in block : \A j \in block : k <= j]

\* the dict _extract_by_links appends
LinkArticle(u, title, content) ==
    [ title           |-> title,
      url             |-> u,
      content         |-> content,
      blurb           |-> _extract_blurb(content, title),
      content_snippet |-> Slice(content, 1, 500),
      word_count      |-> WordCount(content),
      author          |-> None,
      publish_date    |-> None ]

\* one turn of the loop of _extract_by_links for the anchor at path, with its
\* stripped href u and its text title; st is [arts, seen_urls]
LinkVisit(soup, path, u, title, st) ==
    IF ~StartsWith(u, Str("http")) THEN st
    ELSE IF _is_noise_url(u, title) THEN st
    ELSE IF u \in st.seen_urls THEN st
    ELSE IF Len(title) < 10
    THEN [arts |-> st.arts, seen_urls |-> st.seen_urls \cup {u}]
    ELSE [arts |-> Append(st.arts,
                     LinkArticle(u, title, get_text(ContentBlock(soup, path), <<" ">>))),
          seen_urls |-> st.seen_urls \cup {u}]

LinkStep(soup, path, a_tag, st) ==
    LinkVisit(soup, path, Strip(a_tag.href), get_text(a_tag, <<>>), st)

RECURSIVE LinksLoop(_, _, _, _)
\* the for loop of _extract_by_links from the i-th anchor on
LinksLoop(soup, found, i, st) ==
    IF i > Len(found) THEN st.arts
    ELSE LinksLoop(soup, found, i + 1, LinkStep(soup, found[i], NodeAt(soup, found[i]), st))

_extract_by_links(soup) ==
    LinksLoop(soup, find_all_a(soup), 1, [arts |-> <<>>, seen_urls |-> {}])

-----------------------------------------------------------------------------
(* Strategy 3: fallback *)

\* the first line, stripped, with 10 < len < 120, else 'Newsletter'
FallbackTitle(lines) ==
    IF \E k \in 1..Len(lines) : 10 < Len(Strip(lines[k])) /\ Len(Strip(lines[k])) < 120
    THEN Strip(lines[CHOOSE k \in 1..Len(lines) :
                /\ 10 < Len(Strip(lines[k])) /\ Len(Strip(lines[k])) < 120
                /\ \A j \in 1..(k - 1) :
                      ~(10 < Len(Strip(lines[j])) /\ Len(Strip(lines[j])) < 120)])
    ELSE Str("Newsletter")

\* the dict _extract_fallback returns, text being the collapsed document text
FallbackArticle(text) ==
    [ title           |-> FallbackTitle(SplitOn(text, "\n")),
      url             |-> <<>>,
      content         |-> text,
      blurb           |-> <<>>,
      content_snippet |-> Slice(text, 1, 500),
      word_count      |-> WordCount(text),
      author          |-> None,
      publish_date    |-> None ]

_extract_fallback(soup) == << FallbackArticle(CollapseWs(get_text(soup, <<" ">>))) >>

-----------------------------------------------------------------------------
(* Facade: extract_from_email *)

\* BeautifulSoup(html_content, 'html.parser')
BeautifulSoup(html) == Body(html)

\* AfterLinks running the fallback whatever the links gave, and adding its
\* article to theirs
AfterLinks_Merged(soup, s2) ==
    [ran |-> <<"sections", "links", "fallback">>, articles |-> s2 \o _extract_fallback(soup)]

\* lines 90-94: the strategies run, in order, and the candidate list kept
AfterLinks(soup, s2) ==
    IF s2 # <<>> THEN [ran |-> <<"sections", "links">>, articles |-> s2]
    ELSE [ran |-> <<"sections", "links", "fallback">>, articles |-> _extract_fallback(soup)]

\* AfterSections trying the link-based strategy whatever the sections gave
AfterSections_LinksFirst(soup, s1) ==
    IF _extract_by_links(soup) # <<>>
    THEN [ran |-> <<"sections", "links">>, articles |-> _extract_by_links(soup)]
    ELSE [ran |-> <<"sections">>, articles |-> s1]

AfterSections(soup, s1) ==
    IF s1 # <<>> THEN [ran |-> <<"sections">>, articles |-> s1]
    ELSE AfterLinks(soup, _extract_by_links(soup))

\* Strategies with the word-count test of line 106 applied to the sections
\* before the choice of lines 90-94
Strategies_FilterFirst(soup) ==
    AfterSections(soup, SelectSeq(_extract_by_sections(soup),
                                  LAMBDA a : a.word_count >= MIN_WORD_COUNT))

\* lines 90-94: the strategies run, in order, and the candidates of the last
Strategies(soup) == AfterSections(soup, _extract_by_sections(soup))

\* lines 100-104: the article with the shared metadata, paywall flag and type set
Stamp(a, name, email, timestamp, force) ==
    [ title              |-> a.title,
      url                |-> a.url,
      content            |-> a.content,
      blurb              |-> a.blurb,
      content_snippet    |-> a.content_snippet,
      word_count         |-> a.word_count,
      author             |-> a.author,
      publish_date       |-> a.publish_date,
      newsletter_name    |-> name,
      newsletter_email   |-> email,
      received_timestamp |-> timestamp,
      paywall_detected   |-> _detect_paywall(a.content),
      article_type       |-> _classify(a, email, force) ]

\* StampAll without the word-count test of line 106
StampAll_Unfiltered(arts, name, email, timestamp, force) ==
    [k \in 1..Len(arts) |-> Stamp(arts[k], name, email, timestamp, force)]

\* lines 96-109: stamp, classify and filter the candidates
StampAll(arts, name, email, timestamp, force) ==
    SelectSeq([k \in 1..Len(arts) |-> Stamp(arts[k], name, email, timestamp, force)],
              LAMBDA a : a.word_count >= MIN_WORD_COUNT)

StampAndFilter(arts, name, email, timestamp) ==
    StampAll(arts, name, email, timestamp, _is_essay_newsletter(name))

\* lines 87-109 for the strategies' outcome chosen
Finish(chosen, name, email, timestamp) ==
    [ ran      |-> chosen.ran,
      articles |-> chosen.articles,
      result   |-> StampAndFilter(chosen.articles, name, email, timestamp) ]

\* extract_from_email without the early return of lines 84-85
extract_from_email_NoEarlyReturn(html, name, email, timestamp) ==
    Finish(Strategies(BeautifulSoup(html)), name, email, timestamp)

\* what extract_from_email does: [ran, articles, result]
extract_from_email(html, name, email, timestamp) ==
    IF html = <<>>
    THEN [ran |-> <<>>, articles |-> <<>>, result |-> <<>>]
    ELSE Finish(Strategies(BeautifulSoup(html)), name, email, timestamp)

-----------------------------------------------------------------------------
(* Inputs *)

\* most top-level nodes in a document
MaxNodes == 2

\* a run of n one-letter words
Filler(n) == [i \in 1..(2 * n - 1) |-> IF i % 2 = 1 THEN "w" ELSE " "]

\* URLs by their parts; BuildUrl writes one out as scheme://host/seg/seg?query
UrlParts ==
    [ scheme : {Str("https")},
      host   : {Str("example.com"), Str("techdaily.com"), Str("Twitter.com"),
                Str("www.facebook.com")},
      segs   : { <<>>, <<Str("story1")>>, <<Str("disclaimer")>>, <<Str("privacy")>>,
                 <<Str("unsubscribe")>>, <<Str("p"), Str("deep-dive")>>,
                 <<Str("news"), Str("unsubscribe"), Str("now")>>,
                 <<Str("privacy-policy")>>, <<Str("2026"), Str("01"), Str("deep-dive")>> },
      query  : {<<>>, Str("utm=privacy")} ]

BuildUrl(p) ==
    p.scheme \o Str("://") \o p.host
        \o Concat([k \in 1..Len(p.segs) |-> <<"/">> \o p.segs[k]])
        \o (IF p.query = <<>> THEN <<>> ELSE <<"?">> \o p.query)

AnchorTexts ==
    { <<>>, Str("A Deep Dive into Markets"), Str("Click here to unsubscribe"),
      Str("Read more") }

Story1   == BuildUrl([scheme |-> Str("https"), host |-> Str("example.com"),
                      segs |-> <<Str("story1")>>, query |-> <<>>])
OwnPost  == BuildUrl([scheme |-> Str("https"), host |-> Str("techdaily.com"),
                      segs |-> <<Str("p"), Str("deep-dive")>>, query |-> <<>>])
Unsub    == BuildUrl([scheme |-> Str("https"), host |-> Str("example.com"),
                      segs |-> <<Str("unsubscribe")>>, query |-> <<>>])
Tweet    == BuildUrl([scheme |-> Str("https"), host |-> Str("Twitter.com"),
                      segs |-> <<Str("story1")>>, query |-> <<>>])

\* the top-level nodes documents are built from
Nodes ==
    { Elem("h2", <<A(Story1, Str("Big News Story"))>>),
      Elem("h3", <<Text(Str("Thoughts on AI"))>>),
      Elem("p", <<Text(Filler(MIN_WORD_COUNT))>>),
      Elem("p", <<Text(Filler(MIN_WORD_COUNT - 1))>>),
      Elem("p", <<A(OwnPost, Str("Another Headline")), Text(Filler(MIN_WORD_COUNT))>>),
      Elem("p", <<A(Story1, Str("Big News Story")), Text(Str(" short blurb "))>>),
      Elem("p", <<A(Unsub, Str("Leave this list now")), Text(Filler(MIN_WORD_COUNT))>>),
      Elem("td", <<A(Tweet, Str("Follow us for more")), Text(Filler(MIN_WORD_COUNT))>>),
      Elem("div", << Elem("h2", <<Text(Str("Nested Heading"))>>),
                     Elem("span", <<A(Story1, Str("Big News Story")),
                                    Text(Filler(MIN_WORD_COUNT))>>) >>),
      Elem("p", <<A(Story1, Str("Big News Story")),
                  Text(Filler(MIN_WORD_COUNT) \o Str("  \n twice spaced"))>>),
      Elem("h2", <<Elem("img", <<>>)>>),
      Text(Str("\n")) }

DeepDive == BuildUrl([scheme |-> Str("https"), host |-> Str("example.com"),
                      segs |-> <<Str("2026"), Str("01"), Str("deep-dive")>>, query |-> <<>>])

\* most children of <body> in a document given to the section-based scan
MaxChildren == 4

\* the children of <body> the section-based scan is run on
SectionNodes ==
    { Text(Str(" intro text ")),
      Text(Str(" \n ")),
      Elem("h2", <<Text(Str("First Heading"))>>),
      Elem("h3", <<A(Story1, Str("Big News Story"))>>),
      Elem("p", <<Text(Str("some  words ")), A(Story1, Str("Read more")),
                  A(OwnPost, Str("A Deep Dive into Markets"))>>),
      Elem("div", <<Elem("h2", <<Text(Str("Nested"))>>),
                    A(Unsub, Str("Click here to unsubscribe"))>>),
      Elem("td", <<A(DeepDive, Str("Another Headline"))>>) }

SectionSoups == { BeautifulSoup(h) : h \in UNION {[1..n -> SectionNodes] : n \in 0..MaxChildren} }

MailTo == Str("mailto:") \o Str("editor@example.com")

\* most top-level blocks in a document given to the link-based strategy
MaxBlocks == 3

\* the blocks the link-based strategy is run on: anchors that share a url with
\* long, short and other long text, a noise link, two links in one block, an
\* address that is no http url
LinkNodes ==
    { Elem("p", <<A(Story1, Str("Big News Story")), Text(Str("blurb one"))>>),
      Elem("p", <<A(Story1, Str("Read")), Text(Str("blurb two"))>>),
      Elem("td", <<A(<<" ">> \o Story1 \o <<" ">>, Str("The Story Told Again"))>>),
      Elem("td", <<A(Unsub, Str("Leave this list now"))>>),
      Elem("div", <<A(OwnPost, Str("Another Headline")), A(DeepDive, Str("More"))>>),
      Elem("li", <<A(MailTo, Str("Write to the editor"))>>) }

LinkSoups == { BeautifulSoup(h) : h \in UNION {[1..n -> LinkNodes] : n \in 0..MaxBlocks} }

\* the blocks the fallback is run on: text of one line and of two, short, of
\* title length and long
FallbackNodes ==
    { Text(Str("Headline of the day\n") \o Filler(70)),
      Elem("p", <<Text(Str("Short"))>>),
      Elem("p", <<Text(Str("A title of good length"))>>),
      Elem("p", <<Text(Filler(61))>>),
      Elem("p", <<Text(Str("First line here\nsecond line"))>>),
      Text(Str(" \n ")) }

FallbackSoups == { BeautifulSoup(h) : h \in UNION {[1..n -> FallbackNodes] : n \in 0..MaxBlocks} }

\* most anchors in an element given to _best_link_in
MaxAnchors == 3

\* anchors of equal score (the first two), of a higher score, of score 0, with
\* a relative address, and one nested more deeply
BestLinkAnchors ==
    { A(Story1, Str("Big News Story")),
      A(DeepDive, Str("Another Headline")),
      A(OwnPost, Str("A Deep Dive into Markets")),
      A(Unsub, Str("Leave this list now")),
      A(<<"/">> \o Str("story/of/the/day"), Str("The story of the day")),
      Elem("span", <<Text(Str("see ")), A(<<" ">> \o DeepDive, Str("Another Headline"))>>) }

\* the elements _best_link_in is called with, and a string child
BestLinkElements ==
    { Elem("div", kids) : kids \in UNION {[1..n -> BestLinkAnchors] : n \in 0..MaxAnchors} }
        \cup { Text(Str("plain text")) }

\* the html arguments: the empty string and every document of up to MaxNodes nodes
Htmls == UNION {[1..n -> Nodes] : n \in 0..MaxNodes}

Names == { <<>>, Str("Tech Daily"), Str("Stratechery Daily Update") }

Emails == { <<>>, Str("digest@techdaily.com"), Str("News@Example.COM") }

Timestamps == { Str("2026-01-05T08:00:00") }

\* the article urls _classify is called with
ClassifyUrls ==
    { <<>>, Story1, OwnPost, Str("https://EXAMPLE.com/Story2"),
      Str("https://mysubstack.substack.com/p/deep-dive"), Str("http://techdaily.com"),
      Str("https://other.org/a/b"), Str("https://example.community/x") }

ClassifyEmails ==
    Emails \cup { Str("author@mysubstack.substack.com"), Str("a@"), Str("no-reply") }

\* a run of n letters without a space
LongWord(n) == [i \in 1..n |-> "x"]

\* the (content, title) pairs _extract_blurb is called with: content is
\* pre \o lead \o rest
BlurbTitles == { <<>>, Str("Repeated Title") }

BlurbPres == { <<>>, Str("  ") }

BlurbLeads ==
    { <<>>, Str("Repeated Title"), Str("REPEATED title"), Str("Repeated Titles"),
      Str("Another Title") }

BlurbRests ==
    { Str(" The actual blurb follows the title here."),
      Str(" Two  spaces\n and a line "),
      <<" ">> \o Filler(MAX_BLURB_CHARS \div 2),
      <<" ">> \o Filler(MAX_BLURB_CHARS \div 2 + 1),
      <<" ">> \o LongWord(MAX_BLURB_CHARS + 1) }

-----------------------------------------------------------------------------
(* Specification: each behaviour is one call of one entry point *)

\* the arguments of a call that the entry point called does not take
NoArgs ==
    [ html_content       |-> <<>>,
      newsletter_name    |-> <<>>,
      newsletter_email   |-> <<>>,
      received_timestamp |-> <<>>,
      article            |-> [url |-> <<>>],
      force_essay        |-> FALSE,
      url                |-> <<>>,
      anchor_text        |-> <<>>,
      content            |-> <<>>,
      title              |-> <<>>,
      bucket             |-> <<>>,
      essays             |-> <<>>,
      raw                |-> <<>>,
      expected_count     |-> 0,
      link_articles      |-> <<>>,
      soup               |-> None,
      element            |-> None ]

\* the arguments are a
Passed(a) ==
    /\ html_content = a.html_content
    /\ newsletter_name = a.newsletter_name
    /\ newsletter_email = a.newsletter_email
    /\ received_timestamp = a.received_timestamp
    /\ article = a.article
    /\ force_essay = a.force_essay
    /\ url = a.url
    /\ anchor_text = a.anchor_text
    /\ arg_content = a.content
    /\ arg_title = a.title
    /\ arg_bucket = a.bucket
    /\ essays = a.essays
    /\ raw = a.raw
    /\ expected_count = a.expected_count
    /\ link_articles = a.link_articles
    /\ arg_soup = a.soup
    /\ arg_element = a.element

\* no call of call_claude is under way
NoRetry ==
    /\ attempt = 0
    /\ exc = [type |-> "none", response |-> <<>>]
    /\ wait = 0
    /\ calls = 0
    /\ slept = 0
    /\ raised = "none"

\* Database(): an empty file, sqlite_sequence at 0 (lines 15-19, 26-40)
EmptyDb == [processed_emails |-> <<>>, seq |-> 0]

\* no payload was assembled
NoDigest == [total_articles |-> 0, newsletter_count |-> 0, sections |-> <<>>]

\* no run was started
NoRun ==
    /\ runs = 0
    /\ closed = FALSE
    /\ messages = <<>>
    /\ raw_emails = <<>>
    /\ newsletters = <<>>
    /\ todo = <<>>
    /\ all_articles = <<>>
    /\ extracted = <<>>
    /\ digest_data = NoDigest

\* no call on the database is under way and none was made
NoApp ==
    /\ db = EmptyDb
    /\ stored = <<>>
    /\ email_data = None
    /\ gmail_message_id = None
    /\ NoRun

\* the entry point fn of the extractor is called with the arguments a
Call(fn, a) ==
    /\ pc = <<fn, "called">>
    /\ Passed(a)
    /\ NoRetry
    /\ NoApp
    /\ api_calls = 0

InitExtract ==
    \E h \in Htmls, n \in Names, e \in Emails, t \in Timestamps :
        Call("extract_from_email",
             [NoArgs EXCEPT !.html_content = h, !.newsletter_name = n,
                            !.newsletter_email = e, !.received_timestamp = t])

InitClassify ==
    \E u \in ClassifyUrls, e \in ClassifyEmails, f \in BOOLEAN :
        Call("_classify",
             [NoArgs EXCEPT !.article = [url |-> u], !.newsletter_email = e,
                            !.force_essay = f])

InitNoise ==
    \E p \in UrlParts, t \in AnchorTexts :
        Call("_is_noise_url", [NoArgs EXCEPT !.url = BuildUrl(p), !.anchor_text = t])

InitScore ==
    \E p \in UrlParts, t \in AnchorTexts :
        Call("_score_link", [NoArgs EXCEPT !.url = BuildUrl(p), !.anchor_text = t])

InitBlurb ==
    \E t \in BlurbTitles, pre \in BlurbPres, lead \in BlurbLeads, rest \in BlurbRests :
        Call("_extract_blurb",
             [NoArgs EXCEPT !.content = pre \o lead \o rest, !.title = t])

\* a section bucket as _extract_by_sections has filled it
InitFinalise ==
    \E t \in BlurbTitles, lead \in BlurbLeads, rest \in BlurbRests :
        Call("_finalise",
             [NoArgs EXCEPT !.bucket = [ title        |-> t,
                                         url          |-> <<>>,
                                         _raw_text    |-> lead \o rest \o <<" ">>,
                                         author       |-> None,
                                         publish_date |-> None ]])

InitSections ==
    \E sp \in SectionSoups : Call("_extract_by_sections", [NoArgs EXCEPT !.soup = sp])

InitLinks ==
    \E sp \in LinkSoups : Call("_extract_by_links", [NoArgs EXCEPT !.soup = sp])

InitFallback ==
    \E sp \in FallbackSoups : Call("_extract_fallback", [NoArgs EXCEPT !.soup = sp])

InitBestLink ==
    \E el \in BestLinkElements : Call("_best_link_in", [NoArgs EXCEPT !.element = el])

Init ==
    /\ \/ InitExtract \/ InitClassify \/ InitNoise \/ InitScore \/ InitBlurb \/ InitFinalise
       \/ InitSections \/ InitLinks \/ InitFallback \/ InitBestLink
    /\ ran = <<>>
    /\ articles = <<>>
    /\ result = <<>>
    /\ ret = None

\* the call's outcome r = [ran, articles, result] becomes the next state
Returns(r) ==
    /\ ran' = r.ran
    /\ articles' = r.articles
    /\ result' = r.result
    /\ UNCHANGED <<app, args, ret, retry, client>>

\* a static method returns v
PureReturns(v) ==
    /\ ret' = v
    /\ UNCHANGED <<app, args, ran, articles, result, retry, client>>

ExtractFromEmail ==
    /\ pc = <<"extract_from_email", "called">>
    /\ Returns(extract_from_email(html_content, newsletter_name, newsletter_email,
                                   received_timestamp))
    /\ pc' = <<"extract_from_email", "returned">>

Classify ==
    /\ pc = <<"_classify", "called">>
    /\ PureReturns(_classify(article, newsletter_email, force_essay))
    /\ pc' = <<"_classify", "returned">>

IsNoiseUrl ==
    /\ pc = <<"_is_noise_url", "called">>
    /\ PureReturns(_is_noise_url(url, anchor_text))
    /\ pc' = <<"_is_noise_url", "returned">>

ScoreLink ==
    /\ pc = <<"_score_link", "called">>
    /\ PureReturns(_score_link(url, anchor_text))
    /\ pc' = <<"_score_link", "returned">>

ExtractBlurb ==
    /\ pc = <<"_extract_blurb", "called">>
    /\ PureReturns(_extract_blurb(arg_content, arg_title))
    /\ pc' = <<"_extract_blurb", "returned">>

Finalise ==
    /\ pc = <<"_finalise", "called">>
    /\ PureReturns(_finalise(arg_bucket))
    /\ pc' = <<"_finalise", "returned">>

ExtractBySections ==
    /\ pc = <<"_extract_by_sections", "called">>
    /\ PureReturns(_extract_by_sections(arg_soup))
    /\ pc' = <<"_extract_by_sections", "returned">>

ExtractByLinks ==
    /\ pc = <<"_extract_by_links", "called">>
    /\ PureReturns(_extract_by_links(arg_soup))
    /\ pc' = <<"_extract_by_links", "returned">>

ExtractFallback ==
    /\ pc = <<"_extract_fallback", "called">>
    /\ PureReturns(_extract_fallback(arg_soup))
    /\ pc' = <<"_extract_fallback", "returned">>

BestLinkIn ==
    /\ pc = <<"_best_link_in", "called">>
    /\ PureReturns(_best_link_in(arg_element))
    /\ pc' = <<"_best_link_in", "returned">>

Next ==
    \/ ExtractFromEmail
    \/ Classify
    \/ IsNoiseUrl
    \/ ScoreLink
    \/ ExtractBlurb
    \/ Finalise
    \/ ExtractBySections
    \/ ExtractByLinks
    \/ ExtractFallback
    \/ BestLinkIn

Spec == Init /\ [][Next]_vars

-----------------------------------------------------------------------------
(* call_claude (src/src/claude/api_helpers.py): the retry loop around           *)
(* client.messages.create.  Waits are counted in hundredths of a second, so     *)
(* that the jitter factor, drawn as a percentage, keeps them integers.          *)

MAX_RETRIES == 5
BASE_DELAY_SECS == 2
MAX_DELAY_SECS == 60

RECURSIVE Pow2(_)
\* 2 ** n
Pow2(n) == IF n = 0 THEN 1 ELSE 2 * Pow2(n - 1)

Min(a, b) == IF a <= b THEN a ELSE b

Digits == Str("0123456789")

IsDigit(c) == \E i \in 1..10 : Digits[i] = c

DigitValue(c) == (CHOOSE i \in 1..10 : Digits[i] = c) - 1

RECURSIVE Decimal(_)
\* the number a run of digits spells
Decimal(s) ==
    IF s = <<>> THEN 0
    ELSE 10 * Decimal(Slice(s, 1, Len(s) - 1)) + DigitValue(s[Len(s)])

\* the digits of s once its sign is read
Unsigned(s) == IF s # <<>> /\ s[1] \in {"-", "+"} THEN Tail(s) ELSE s

\* float(s) for text that is a whole number, with or without a sign, or that
\* holds letters other than a number's: ok is FALSE where float raises ValueError
float(s) ==
    IF Unsigned(s) # <<>> /\ \A i \in 1..Len(Unsigned(s)) : IsDigit(Unsigned(s)[i])
    THEN [ok |-> TRUE,
          value |-> IF s[1] = "-" THEN 0 - Decimal(Unsigned(s)) ELSE Decimal(Unsigned(s))]
    ELSE [ok |-> FALSE, value |-> 0]

\* what exc.response.headers.get('retry-after') can give: None when the header
\* is absent, else its text
RetryAfterValues ==
    { None, <<>>, Str("0"), Str("30"), Str("60"), Str("120"),
      Str("Wed, 21 Oct 2026 07:28:00 GMT") }

\* exc.response: <<>> for None, else <<headers>>
Responses == { <<>> } \cup { <<[retry_after |-> v]>> : v \in RetryAfterValues }

\* random.uniform(0.75, 1.25), in percent: both ends and the middle
JitterPercents == { 75, 100, 125 }

\* lines 42-44: retry_after
RetryAfter(e) == IF e.response # <<>> THEN e.response[1].retry_after ELSE None

\* `if retry_after:`
Truthy(v) == v # None /\ v # <<>>

InitRetry ==
    /\ pc = <<"call_claude", "create">>
    /\ Passed(NoArgs)
    /\ ran = <<>>
    /\ articles = <<>>
    /\ result = <<>>
    /\ ret = None
    /\ attempt = 1
    /\ exc = [type |-> "none", response |-> <<>>]
    /\ wait = 0
    /\ calls = 0
    /\ slept = 0
    /\ raised = "none"
    /\ api_calls = 0
    /\ NoApp

\* the exception e leaves call_claude
Raise(e) ==
    /\ raised' = e
    /\ pc' = <<"call_claude", "raised">>
    /\ UNCHANGED <<attempt, wait, slept>>

\* line 31: client.messages.create returns a response, which call_claude returns
CreateReturns ==
    /\ pc = <<"call_claude", "create">>
    /\ calls' = calls + 1
    /\ pc' = <<"call_claude", "returned">>
    /\ UNCHANGED <<app, args, outs, client, attempt, exc, wait, slept, raised>>

\* line 36: client.messages.create raises RateLimitError
CreateRateLimited ==
    /\ pc = <<"call_claude", "create">>
    /\ calls' = calls + 1
    /\ \E r \in Responses : exc' = [type |-> "RateLimitError", response |-> r]
    /\ pc' = <<"call_claude", "except">>
    /\ UNCHANGED <<app, args, outs, client, attempt, wait, slept, raised>>

\* client.messages.create raises anything else, which no handler catches
CreateRaises ==
    /\ pc = <<"call_claude", "create">>
    /\ calls' = calls + 1
    /\ exc' = [type |-> "OtherError", response |-> <<>>]
    /\ Raise("OtherError")
    /\ UNCHANGED <<app, args, outs, client>>

\* lines 37-39: the last attempt was rate-limited
GiveUp ==
    /\ pc = <<"call_claude", "except">>
    /\ attempt = MAX_RETRIES
    /\ Raise("RateLimitError")
    /\ UNCHANGED <<app, args, outs, client, exc, calls>>

\* line 56: time.sleep(wait), which raises ValueError on a negative wait, and
\* the next turn of the loop
Sleep(w) ==
    IF w < 0 THEN Raise("ValueError")
    ELSE /\ wait' = w
         /\ slept' = slept + 1
         /\ attempt' = attempt + 1
         /\ pc' = <<"call_claude", "create">>
         /\ UNCHANGED raised

\* lines 46-52 with a header: wait = float(retry_after) * jitter
WaitHeader(parsed, jitter) ==
    IF parsed.ok THEN Sleep(parsed.value * jitter) ELSE Raise("ValueError")

\* lines 48-52 without: wait = min(BASE * 2 ** (attempt - 1), MAX) * jitter
WaitBackoff(jitter) ==
    Sleep(Min(BASE_DELAY_SECS * Pow2(attempt - 1), MAX_DELAY_SECS) * jitter)

\* lines 41-56: the handler of a RateLimitError before the last attempt
HandleRateLimit ==
    /\ pc = <<"call_claude", "except">>
    /\ attempt # MAX_RETRIES
    /\ \E jitter \in JitterPercents :
          IF Truthy(RetryAfter(exc))
          THEN WaitHeader(float(RetryAfter(exc)), jitter)
          ELSE WaitBackoff(jitter)
    /\ UNCHANGED <<app, args, outs, client, exc, calls>>

NextRetry ==
    \/ CreateReturns
    \/ CreateRateLimited
    \/ CreateRaises
    \/ GiveUp
    \/ HandleRateLimit

SpecRetry == InitRetry /\ [][NextRetry]_vars

-----------------------------------------------------------------------------
(* json.loads, as the summarizer and the categorizer use it.  A JSON value is  *)
(* [t |-> its type, v |-> its value]: "str" with the text, "int" with the      *)
(* number, "list" with the sequence of values, "dict" with the sequence of    *)
(* <<key text, value>> pairs, and "None", "True", "False".  The grammar read  *)
(* is JSON without string escapes, fractions and exponents.                   *)

JsonWs == {" ", "\n", "\t", "\r"}

\* the first position of s at or after i that holds no JSON whitespace
SkipWs(s, i) == i + FindAny(Slice(s, i, Len(s)), {s[k] : k \in 1..Len(s)} \ JsonWs) - 1

\* a parse: the value read and the position after it, or ok = FALSE
JFail == [ok |-> FALSE, val |-> [t |-> "None", v |-> 0], next |-> 0]

JOk(t, v, next) == [ok |-> TRUE, val |-> [t |-> t, v |-> v], next |-> next]

\* the string that opens at position i, its closing quote being len characters on
JStringTo(s, i, len) ==
    IF len > Len(s) - i THEN JFail
    ELSE IF \E k \in (i + 1)..(i + len - 1) : s[k] \in {"\n", "\t", "\r", "\\"} THEN JFail
    ELSE JOk("str", Slice(s, i + 1, i + len - 1), i + len + 1)

JString(s, i) == JStringTo(s, i, FindAny(Slice(s, i + 1, Len(s)), {"\""}))

\* the integer whose digits run from position from up to before position to
JNumberTo(s, i, from, to) ==
    IF to = from THEN JFail
    ELSE IF to - from > 1 /\ s[from] = "0" THEN JFail
    ELSE IF to <= Len(s) /\ s[to] \in {".", "e", "E"} THEN JFail
    ELSE JOk("int", IF from > i THEN 0 - Decimal(Slice(s, from, to - 1))
                    ELSE Decimal(Slice(s, from, to - 1)), to)

JNumberFrom(s, i, from) ==
    JNumberTo(s, i, from,
              from + FindAny(Slice(s, from, Len(s)),
                             {s[k] : k \in 1..Len(s)} \ {Digits[d] : d \in 1..10}) - 1)

JNumber(s, i) == JNumberFrom(s, i, IF s[i] = "-" THEN i + 1 ELSE i)

\* one of the literals null, true, false
JLiteral(s, i) ==
    IF Slice(s, i, i + 3) = Str("null") THEN JOk("None", 0, i + 4)
    ELSE IF Slice(s, i, i + 3) = Str("true") THEN JOk("True", 0, i + 4)
    ELSE IF Slice(s, i, i + 4) = Str("false") THEN JOk("False", 0, i + 5)
    ELSE JFail

RECURSIVE JValue(_, _), JElements(_, _, _), JMembers(_, _, _)

\* after an element of a list: a comma and more, or the closing bracket
JAfterElement(s, j, acc) ==
    IF j > Len(s) THEN JFail
    ELSE IF s[j] = "," THEN JElements(s, SkipWs(s, j + 1), acc)
    ELSE IF s[j] = "]" THEN JOk("list", acc, j + 1)
    ELSE JFail

JElement(s, r, acc) ==
    IF r.ok THEN JAfterElement(s, SkipWs(s, r.next), Append(acc, r.val)) ELSE JFail

JElements(s, i, acc) == JElement(s, JValue(s, i), acc)

\* after a member of an object: a comma and more, or the closing brace
JAfterMember(s, j, acc) ==
    IF j > Len(s) THEN JFail
    ELSE IF s[j] = "," THEN JMembers(s, SkipWs(s, j + 1), acc)
    ELSE IF s[j] = "}" THEN JOk("dict", acc, j + 1)
    ELSE JFail

JMemberValue(s, key, r, acc) ==
    IF r.ok THEN JAfterMember(s, SkipWs(s, r.next), Append(acc, <<key, r.val>>)) ELSE JFail

JColon(s, key, j, acc) ==
    IF j <= Len(s) /\ s[j] = ":"
    THEN JMemberValue(s, key, JValue(s, SkipWs(s, j + 1)), acc)
    ELSE JFail

JKey(s, k, acc) ==
    IF k.ok THEN JColon(s, k.val.v, SkipWs(s, k.next), acc) ELSE JFail

JMembers(s, i, acc) ==
    IF i <= Len(s) /\ s[i] = "\"" THEN JKey(s, JString(s, i), acc) ELSE JFail

\* the list or object that opened before position j, which holds its first token
JOpen(s, j, close, t) ==
    IF j <= Len(s) /\ s[j] = close THEN JOk(t, <<>>, j + 1)
    ELSE IF t = "list" THEN JElements(s, j, <<>>)
    ELSE JMembers(s, j, <<>>)

JValue(s, i) ==
    IF i > Len(s) THEN JFail
    ELSE IF s[i] = "\"" THEN JString(s, i)
    ELSE IF s[i] = "[" THEN JOpen(s, SkipWs(s, i + 1), "]", "list")
    ELSE IF s[i] = "{" THEN JOpen(s, SkipWs(s, i + 1), "}", "dict")
    ELSE IF s[i] = "-" \/ IsDigit(s[i]) THEN JNumber(s, i)
    ELSE JLiteral(s, i)

\* a whole document: one value with nothing but whitespace around it
JDocument(s, r) == IF r.ok /\ SkipWs(s, r.next) > Len(s) THEN r ELSE JFail

\* json.loads(text): ok = FALSE where it raises JSONDecodeError
json_loads(text) == JDocument(text, JValue(text, SkipWs(text, 1)))

-----------------------------------------------------------------------------
(* DigestSummarizer (src/src/claude/summarizer.py) *)

RECURSIVE IntStr(_)
\* str(n) for an integer n
IntStr(n) ==
    IF n < 0 THEN <<"-">> \o IntStr(0 - n)
    ELSE IF n < 10 THEN <<Digits[n + 1]>>
    ELSE IntStr(n \div 10) \o <<Digits[(n % 10) + 1]>>

\* repr(s) for text without backslashes and control characters: double quotes
\* when s holds ' and no ", else single quotes
StrRepr(s) ==
    IF Find(s, "'") > 0 /\ Find(s, "\"") = 0 THEN <<"\"">> \o s \o <<"\"">>
    ELSE <<"'">> \o s \o <<"'">>

\* the positions in pairs at which a key occurs for the first time
FirstKeys(pairs) ==
    SelectSeq([k \in 1..Len(pairs) |-> k],
              LAMBDA k : \A j \in 1..(k - 1) : pairs[j][1] # pairs[k][1])

\* the value the last pair with this key holds
LastValue(pairs, key) ==
    pairs[CHOOSE j \in 1..Len(pairs) :
             pairs[j][1] = key /\ \A i \in (j + 1)..Len(pairs) : pairs[i][1] # key][2]

\* the items of the dict json.loads builds from the members of an object: a
\* key that is repeated stays where it first stood and takes its last value
DictItems(pairs) ==
    [k \in 1..Len(FirstKeys(pairs)) |->
        <<pairs[FirstKeys(pairs)[k]][1], LastValue(pairs, pairs[FirstKeys(pairs)[k]][1])>>]

RECURSIVE PyStr(_), PyRepr(_)
\* repr(val)
PyRepr(val) ==
    IF val.t = "str" THEN StrRepr(val.v)
    ELSE IF val.t = "list"
    THEN <<"[">> \o Join([k \in 1..Len(val.v) |-> PyRepr(val.v[k])], Str(", ")) \o <<"]">>
    ELSE IF val.t = "dict"
    THEN <<"{">> \o Join([k \in 1..Len(DictItems(val.v)) |->
                            StrRepr(DictItems(val.v)[k][1]) \o Str(": ")
                                \o PyRepr(DictItems(val.v)[k][2])],
                         Str(", ")) \o <<"}">>
    ELSE PyStr(val)

\* str(val)
PyStr(val) ==
    IF val.t = "str" THEN val.v
    ELSE IF val.t = "int" THEN IntStr(val.v)
    ELSE IF val.t \in {"None", "True", "False"} THEN Str(val.t)
    ELSE PyRepr(val)

\* s.rstrip()
RStrip(s) ==
    LET ink == {i \in 1..Len(s) : ~IsSpace(s[i])}
    IN  IF ink = {} THEN <<>> ELSE Slice(s, 1, CHOOSE i \in ink : \A j \in ink : j <= i)

\* the grave accent, kept apart from the quoting of this notation
Backtick == "U+0060"

\* the code fence of Markdown
Fence == <<Backtick, Backtick, Backtick>>

\* re.sub of the pattern ^ Fence (json)? \s* by '' in text
FenceStart(text) ==
    IF ~StartsWith(text, Fence) THEN text
    ELSE IF StartsWith(text, Fence \o Str("json")) THEN LStrip(Slice(text, 8, Len(text)))
    ELSE LStrip(Slice(text, 4, Len(text)))

\* re.sub of the pattern \s* Fence $ by '' in text, for text that does not
\* end in a newline
FenceEnd(text) ==
    IF Len(text) >= 3 /\ Slice(text, Len(text) - 2, Len(text)) = Fence
    THEN RStrip(Slice(text, 1, Len(text) - 3))
    ELSE text

\* lines 107-109 of summarizer.py, 107-109 of categorizer.py
Unfenced(r) == FenceEnd(FenceStart(Strip(r)))

\* the end of the match of \d+[\]\).]?\s* at position from of line, or 0
NumberingEnd(line, from, to) ==
    IF to = from THEN 0
    ELSE IF to <= Len(line) /\ line[to] \in {"]", ")", "."}
    THEN to + FindAny(Slice(line, to + 1, Len(line)), {line[k] : k \in 1..Len(line)} \ {" ", "\n", "\t"})
    ELSE to + FindAny(Slice(line, to, Len(line)), {line[k] : k \in 1..Len(line)} \ {" ", "\n", "\t"}) - 1

NumberingFrom(line, from) ==
    NumberingEnd(line, from,
                 from + FindAny(Slice(line, from, Len(line)),
                                {line[k] : k \in 1..Len(line)} \ {Digits[d] : d \in 1..10}) - 1)

\* re.sub(r'^[\[\(]?\d+[\]\).]?\s*', '', line)
StripNumbering(line) ==
    IF line = <<>> THEN line
    ELSE IF NumberingFrom(line, IF line[1] \in {"[", "("} THEN 2 ELSE 1) = 0 THEN line
    ELSE Slice(line, NumberingFrom(line, IF line[1] \in {"[", "("} THEN 2 ELSE 1), Len(line))

\* lines 120-125: the stripped non-empty lines, numbering removed, the empty dropped
CleanedLines(r) ==
    SelectSeq([k \in 1..Len(SplitOn(r, "\n")) |->
                  Strip(StripNumbering(Strip(SplitOn(r, "\n")[k])))],
              LAMBDA l : l # <<>>)

\* PadOrTrim without the trim of line 130
PadOrTrim_NoTrim(cleaned, n) ==
    IF Len(cleaned) >= n THEN cleaned
    ELSE cleaned \o [k \in 1..(n - Len(cleaned)) |-> Str("Summary unavailable.")]

\* lines 128-130: pad with the placeholder or trim to n
PadOrTrim(cleaned, n) ==
    IF Len(cleaned) >= n THEN Slice(cleaned, 1, n)
    ELSE cleaned \o [k \in 1..(n - Len(cleaned)) |-> Str("Summary unavailable.")]

\* lines 111-130, data being json.loads(text)
SummariesFrom(data, r, n) ==
    IF data.ok /\ data.val.t = "list" /\ Len(data.val.v) = n
    THEN [k \in 1..n |-> Strip(PyStr(data.val.v[k]))]
    ELSE PadOrTrim(CleanedLines(r), n)

\* DigestSummarizer._parse_response(raw, expected_count)
Summarizer_parse_response(r, n) == SummariesFrom(json_loads(Unfenced(r)), r, n)

\* {**essay, 'summary': summary}
WithSummary(essay, summary) ==
    [ title           |-> essay.title,
      content         |-> essay.content,
      newsletter_name |-> essay.newsletter_name,
      summary         |-> summary ]

\* lines 66-69: zip stops at the shorter of the two
ZipSummaries(es, summaries) ==
    [k \in 1..Min(Len(es), Len(summaries)) |-> WithSummary(es[k], summaries[k])]

\* summarize_essays(essays) when call_claude returns a response with the text r
summarize_essays(es, r) ==
    IF es = <<>> THEN <<>>
    ELSE ZipSummaries(es, Summarizer_parse_response(r, Len(es)))

\* most essays in one call
MaxEssays == 3

Essay(i) ==
    [ title           |-> Str("Essay ") \o IntStr(i),
      content         |-> LongWord(5 * i),
      newsletter_name |-> Str("NL") \o IntStr(i) ]

EssayLists == { [i \in 1..n |-> Essay(i)] : n \in 0..MaxEssays }

\* the texts the model may answer with
RawTexts ==
    { Str("[\"Summary of essay one.\", \"Summary of essay two.\"]"),
      Fence \o Str("json\n[\"First.\", \"Second.\"]\n") \o Fence,
      Fence \o Str("\n[\"Only.\"]\n") \o Fence,
      Str("1. First summary.\n2. Second summary.\n3. Third summary."),
      Str("Only one line here."),
      Str("[\" padded \", 7, null]"),
      Str("[\"a\", \"b\", \"c\", \"d\"]"),
      Str("{\"0\": \"Summary of essay one.\"}"),
      Str("(1) One\n\n[2] Two\n 3 \n4.Four"),
      Str("Here are the summaries:\n[\"First.\", \"Second.\"]"),
      Str("[]"),
      <<>> }

InitSummarize ==
    /\ \E es \in EssayLists, r \in RawTexts :
          Call("summarize_essays", [NoArgs EXCEPT !.essays = es, !.raw = r])
    /\ ran = <<>> /\ articles = <<>> /\ result = <<>> /\ ret = None

InitParseSummaries ==
    /\ \E n \in 0..MaxEssays, r \in RawTexts :
          Call("DigestSummarizer._parse_response",
               [NoArgs EXCEPT !.raw = r, !.expected_count = n])
    /\ ran = <<>> /\ articles = <<>> /\ result = <<>> /\ ret = None

InitSummarizer == InitSummarize \/ InitParseSummaries

\* summarize_essays returns: at once for no essays, else after one call_claude
\* whose response holds the text raw
SummarizeEssays ==
    /\ pc = <<"summarize_essays", "called">>
    /\ ret' = summarize_essays(essays, raw)
    /\ api_calls' = IF essays = <<>> THEN api_calls ELSE api_calls + 1
    /\ pc' = <<"summarize_essays", "returned">>
    /\ UNCHANGED <<app, args, ran, articles, result, retry>>

\* call_claude raises, and the exception leaves summarize_essays
SummarizeRaises ==
    /\ pc = <<"summarize_essays", "called">>
    /\ essays # <<>>
    /\ api_calls' = api_calls + 1
    /\ pc' = <<"summarize_essays", "raised">>
    /\ UNCHANGED <<app, args, outs, retry>>

ParseSummaries ==
    /\ pc = <<"DigestSummarizer._parse_response", "called">>
    /\ PureReturns(Summarizer_parse_response(raw, expected_count))
    /\ pc' = <<"DigestSummarizer._parse_response", "returned">>

NextSummarizer == SummarizeEssays \/ SummarizeRaises \/ ParseSummaries

SpecSummarizer == InitSummarizer /\ [][NextSummarizer]_vars

-----------------------------------------------------------------------------
(* TopicCategorizer (src/src/claude/categorizer.py) *)

\* config.CATEGORIZABLE_CATEGORIES
CATEGORIZABLE_CATEGORIES ==
    << Str("Technology & AI"),
       Str("Business & Finance"),
       Str("Politics & Policy"),
       Str("Science & Health"),
       Str("Culture & Society") >>

\* line 111: set(config.CATEGORIZABLE_CATEGORIES) | {'Other'}
allowed ==
    {CATEGORIZABLE_CATEGORIES[k] : k \in 1..Len(CATEGORIZABLE_CATEGORIES)} \cup {Str("Other")}

\* digits with single underscores between them, as int() accepts them
IsIntBody(s) ==
    /\ s # <<>>
    /\ IsDigit(s[1])
    /\ IsDigit(s[Len(s)])
    /\ \A i \in 1..Len(s) : IsDigit(s[i]) \/ s[i] = "_"
    /\ \A i \in 1..(Len(s) - 1) : ~(s[i] = "_" /\ s[i + 1] = "_")

\* int(key) for a str key: ok is FALSE where int raises ValueError
int(key) ==
    IF IsIntBody(Unsigned(Strip(key)))
    THEN [ok |-> TRUE,
          value |-> IF Strip(key)[1] = "-"
                    THEN 0 - Decimal(SelectSeq(Unsigned(Strip(key)), IsDigit))
                    ELSE Decimal(SelectSeq(Unsigned(Strip(key)), IsDigit))]
    ELSE [ok |-> FALSE, value |-> 0]

\* line 125: value if value in allowed else 'Other', for a hashable value
Category(value) ==
    IF value.t = "str" /\ value.v \in allowed THEN value.v ELSE Str("Other")

RECURSIVE ParseItems(_, _)
\* lines 120-127: the loop over data.items(), result holding the assignments
\* made so far as <<idx, category>>; `value in allowed` raises TypeError for a
\* list or a dict, which cannot be hashed
ParseItems(items, res) ==
    IF items = <<>> THEN [raised |-> "none", map |-> res]
    ELSE IF ~int(Head(items)[1]).ok THEN ParseItems(Tail(items), res)
    ELSE IF Head(items)[2].t \in {"list", "dict"} THEN [raised |-> "TypeError", map |-> res]
    ELSE ParseItems(Tail(items),
                    Append(res, <<int(Head(items)[1]).value, Category(Head(items)[2])>>))

\* lines 113-127, data being json.loads(text): data.items() raises
\* AttributeError where data is no dict
CategoriesFrom(data) ==
    IF ~data.ok THEN [raised |-> "none", map |-> <<>>]
    ELSE IF data.val.t # "dict" THEN [raised |-> "AttributeError", map |-> <<>>]
    ELSE ParseItems(DictItems(data.val.v), <<>>)

\* TopicCategorizer._parse_response(raw)
Categorizer_parse_response(r) == CategoriesFrom(json_loads(Unfenced(r)))

\* raw_map.get(i, 'Other'), raw_map holding the assignments in order
Get(raw_map, i) ==
    IF \E k \in 1..Len(raw_map) : raw_map[k][1] = i
    THEN raw_map[CHOOSE k \in 1..Len(raw_map) :
                    raw_map[k][1] = i /\ \A j \in (k + 1)..Len(raw_map) : raw_map[j][1] # i][2]
    ELSE Str("Other")

\* line 65: {i: raw_map.get(i, 'Other') for i in range(len(articles))}
Filled(raw_map, n) == [i \in 0..(n - 1) |-> Get(raw_map, i)]

\* most link articles in one call
MaxArticles == 3

ArticleToCategorize(i) ==
    [ title           |-> Str("Story ") \o IntStr(i),
      content         |-> LongWord(4 * i),
      newsletter_name |-> Str("NL") \o IntStr(i) ]

LinkArticleLists == { [i \in 1..n |-> ArticleToCategorize(i)] : n \in 0..MaxArticles }

\* the texts the model may answer with
RawCategoryTexts ==
    { Str("{\"0\": \"Technology & AI\", \"1\": \"Business & Finance\", \"2\": \"Other\"}"),
      Str("{\"0\": \"Vibes & Feelings\"}"),
      Fence \o Str("json\n{\"0\": \"Politics & Policy\"}\n") \o Fence,
      Str("this is not json at all"),
      Str("{\"1\": \"Science & Health\"}"),
      Str("{\"first\": \"Technology & AI\", \"1\": \"Culture & Society\"}"),
      Str("{\"0\": \"Other\", \"5\": \"Technology & AI\", \"-1\": \"Science & Health\"}"),
      Str("{\"0\": \"Technology & AI\", \" 0 \": \"Science & Health\"}"),
      Str("{\"0\": 3, \"1\": null}"),
      Str("{}"),
      Str("[\"Technology & AI\", \"Other\"]"),
      Str("null"),
      Str("{\"0\": [\"Technology & AI\"]}"),
      <<>> }

InitCategorize ==
    /\ \E arts \in LinkArticleLists, r \in RawCategoryTexts :
          Call("categorize_articles", [NoArgs EXCEPT !.link_articles = arts, !.raw = r])
    /\ ran = <<>> /\ articles = <<>> /\ result = <<>> /\ ret = None

InitParseCategories ==
    /\ \E r \in RawCategoryTexts :
          Call("TopicCategorizer._parse_response", [NoArgs EXCEPT !.raw = r])
    /\ ran = <<>> /\ articles = <<>> /\ result = <<>> /\ ret = None

InitCategorizer == InitCategorize \/ InitParseCategories

\* categorize_articles returns: at once for no articles, else after one
\* call_claude whose response holds the text raw, which is parsed
CategorizeArticles ==
    /\ pc = <<"categorize_articles", "called">>
    /\ link_articles # <<>> => Categorizer_parse_response(raw).raised = "none"
    /\ ret' = IF link_articles = <<>> THEN <<>>
              ELSE Filled(Categorizer_parse_response(raw).map, Len(link_articles))
    /\ api_calls' = IF link_articles = <<>> THEN api_calls ELSE api_calls + 1
    /\ pc' = <<"categorize_articles", "returned">>
    /\ UNCHANGED <<app, args, ran, articles, result, retry>>

\* an exception of _parse_response (line 62) leaves categorize_articles
CategorizeParseRaises ==
    /\ pc = <<"categorize_articles", "called">>
    /\ link_articles # <<>>
    /\ Categorizer_parse_response(raw).raised # "none"
    /\ raised' = Categorizer_parse_response(raw).raised
    /\ api_calls' = api_calls + 1
    /\ pc' = <<"categorize_articles", "raised">>
    /\ UNCHANGED <<app, args, outs, attempt, exc, wait, calls, slept>>

\* call_claude raises (lines 55-60), and the exception leaves categorize_articles
CategorizeCallRaises ==
    /\ pc = <<"categorize_articles", "called">>
    /\ link_articles # <<>>
    /\ \E e \in {"RateLimitError", "OtherError"} : raised' = e
    /\ api_calls' = api_calls + 1
    /\ pc' = <<"categorize_articles", "raised">>
    /\ UNCHANGED <<app, args, outs, attempt, exc, wait, calls, slept>>

\* _parse_response returns the map of the assignments it made
ParseCategories ==
    /\ pc = <<"TopicCategorizer._parse_response", "called">>
    /\ Categorizer_parse_response(raw).raised = "none"
    /\ PureReturns(Categorizer_parse_response(raw).map)
    /\ pc' = <<"TopicCategorizer._parse_response", "returned">>

ParseCategoriesRaises ==
    /\ pc = <<"TopicCategorizer._parse_response", "called">>
    /\ Categorizer_parse_response(raw).raised # "none"
    /\ raised' = Categorizer_parse_response(raw).raised
    /\ pc' = <<"TopicCategorizer._parse_response", "raised">>
    /\ UNCHANGED <<app, args, outs, client, attempt, exc, wait, calls, slept>>

NextCategorizer ==
    \/ CategorizeArticles
    \/ CategorizeParseRaises
    \/ CategorizeCallRaises
    \/ ParseCategories
    \/ ParseCategoriesRaises

SpecCategorizer == InitCategorizer /\ [][NextCategorizer]_vars

-----------------------------------------------------------------------------
(* Database (src/src/database/models.py) *)

\* SELECT id FROM processed_emails WHERE gmail_message_id = ?, fetchone():
\* the rows that match, in rowid order
SelectByMessageId(d, g) ==
    SelectSeq(d.processed_emails, LAMBDA row : row.gmail_message_id = g)

\* the row of lines 145-159 for email_data e under the id n
Row(n, e) ==
    [ id               |-> n,
      gmail_message_id |-> e.gmail_message_id,
      subject          |-> e.subject,
      is_newsletter    |-> e.is_newsletter ]

\* INSERT OR REPLACE in place of INSERT OR IGNORE: the row in conflict is
\* deleted and a new one inserted
Insert_OrReplace(d, e) ==
    [ processed_emails |->
          SelectSeq(d.processed_emails,
                    LAMBDA row : row.gmail_message_id # e.gmail_message_id)
              \o <<Row(d.seq + 1, e)>>,
      seq |-> d.seq + 1 ]

\* lines 144-161: INSERT OR IGNORE on the UNIQUE column gmail_message_id; a new
\* row takes the next AUTOINCREMENT id, and SQLite (3.40) spends an id on an
\* insert it ignores as well
Insert(d, e) ==
    IF SelectByMessageId(d, e.gmail_message_id) # <<>>
    THEN [d EXCEPT !.seq = d.seq + 1]
    ELSE [ processed_emails |-> Append(d.processed_emails, Row(d.seq + 1, e)),
           seq |-> d.seq + 1 ]

\* lines 164-169 on the database after the insert: the id of the row found
RowId(d, e) == SelectByMessageId(d, e.gmail_message_id)[1].id

\* Database.store_email(email_data): the database after it and the id returned
store_email(d, e) == [db |-> Insert(d, e), id |-> RowId(Insert(d, e), e)]

\* Database.check_if_processed(gmail_message_id)
check_if_processed(d, g) == SelectByMessageId(d, g) # <<>>

\* most store_email calls in one behaviour
MaxStores == 3

\* message ids, two of them alike but for the case of the letters
MessageIds == { Str("msg-001"), Str("MSG-001"), Str("msg-002"), Str("msg-999") }

EmailData ==
    [ gmail_message_id : MessageIds \ {Str("msg-999")},
      subject          : {Str("Test"), Str("Test again")},
      is_newsletter    : {TRUE} ]

\* the note of a store_email call: its email_data and the id it returned
Stored(e, n) ==
    [ gmail_message_id |-> e.gmail_message_id,
      subject          |-> e.subject,
      is_newsletter    |-> e.is_newsletter,
      id               |-> n ]

InitDatabase ==
    /\ pc = <<"Database", "created">>
    /\ Passed(NoArgs)
    /\ NoRetry
    /\ NoApp
    /\ api_calls = 0
    /\ ran = <<>> /\ articles = <<>> /\ result = <<>> /\ ret = None

OnDatabase == pc[1] \in {"Database", "store_email", "check_if_processed"}

StoreEmail ==
    /\ OnDatabase
    /\ Len(stored) < MaxStores
    /\ \E e \in EmailData :
          /\ email_data' = e
          /\ db' = store_email(db, e).db
          /\ ret' = store_email(db, e).id
          /\ stored' = Append(stored, Stored(e, store_email(db, e).id))
    /\ pc' = <<"store_email", "returned">>
    /\ UNCHANGED <<args, ran, articles, result, retry, client, gmail_message_id, run>>

CheckIfProcessed ==
    /\ OnDatabase
    /\ \E g \in MessageIds :
          /\ gmail_message_id' = g
          /\ ret' = check_if_processed(db, g)
    /\ pc' = <<"check_if_processed", "returned">>
    /\ UNCHANGED <<args, ran, articles, result, retry, client, db, stored, email_data, run>>

NextDatabase == StoreEmail \/ CheckIfProcessed

SpecDatabase == InitDatabase /\ [][NextDatabase]_vars

-----------------------------------------------------------------------------
(* Newsletter detection (src/src/gmail/filters.py) *)

NEWSLETTER_SERVICES ==
    << Str("substack.com"), Str("beehiiv.com"), Str("ghost.io"), Str("mailchimp.com"),
       Str("sendgrid.net"), Str("convertkit.com"), Str("revue.com") >>

\* dict.get(name, ''): headers are a function from header names to values
HeaderGet(headers, name) == IF name \in DOMAIN headers THEN headers[name] ELSE <<>>

\* s.replace(old, ''): every occurrence of old, from the left, is cut out
RECURSIVE Remove(_, _)
Remove(s, old) ==
    IF Len(s) < Len(old) THEN s
    ELSE IF StartsWith(s, old) THEN Remove(Slice(s, Len(old) + 1, Len(s)), old)
    ELSE <<Head(s)>> \o Remove(Tail(s), old)

\* the index at which needle first starts in hay, 0 if nowhere
FindStr(hay, needle) ==
    IF \E i \in 1..Len(hay) : StartsWith(Slice(hay, i, Len(hay)), needle)
    THEN CHOOSE i \in 1..Len(hay) :
            /\ StartsWith(Slice(hay, i, Len(hay)), needle)
            /\ \A j \in 1..(i - 1) : ~StartsWith(Slice(hay, j, Len(hay)), needle)
    ELSE 0

\* s.split(sep)[0]
BeforeFirst(s, sep) == IF FindStr(s, sep) = 0 THEN s ELSE Slice(s, 1, FindStr(s, sep) - 1)

\* s.split(sep)[1], for s that holds sep
AfterFirst(s, sep) ==
    BeforeFirst(Slice(s, FindStr(s, sep) + Len(sep), Len(s)), sep)

\* re.search of `a\s+b` in s
SearchWords(s, a, b) ==
    \E i \in 1..Len(s), j \in 1..Len(s) :
        /\ StartsWith(Slice(s, i, Len(s)), a)
        /\ j > i + Len(a)
        /\ \A k \in (i + Len(a))..(j - 1) : IsSpace(s[k])
        /\ StartsWith(Slice(s, j, Len(s)), b)

\* re.search of `#\d+` in s
SearchIssue(s) == \E i \in 1..(Len(s) - 1) : s[i] = "#" /\ IsDigit(s[i + 1])

\* lines 50-57: the subject patterns of heuristic 5
SubjectPattern(subject_lower) ==
    \/ Contains(subject_lower, Str("newsletter"))
    \/ Contains(subject_lower, Str("digest"))
    \/ SearchWords(subject_lower, Str("weekly"), Str("update"))
    \/ SearchWords(subject_lower, Str("daily"), Str("brief"))
    \/ SearchWords(subject_lower, Str("this"), Str("week"))
    \/ SearchIssue(subject_lower)

\* the services of NEWSLETTER_SERVICES found in s, in list order
ServicesIn(s) == SelectSeq(NEWSLETTER_SERVICES, LAMBDA service : Contains(s, service))

\* detect_newsletter_service(sender_email, headers): the name or None
detect_newsletter_service(sender_email, headers) ==
    IF ServicesIn(Lower(sender_email)) # <<>>
    THEN BeforeFirst(ServicesIn(Lower(sender_email))[1], <<".">>)
    ELSE IF Contains(Lower(HeaderGet(headers, "X-Mailer")), Str("substack")) THEN Str("substack")
    ELSE IF Contains(Lower(HeaderGet(headers, "X-Mailer")), Str("beehiiv")) THEN Str("beehiiv")
    ELSE IF ServicesIn(Lower(HeaderGet(headers, "Return-Path"))) # <<>>
    THEN BeforeFirst(ServicesIn(Lower(HeaderGet(headers, "Return-Path")))[1], <<".">>)
    ELSE None

\* the text of the document's nodes and the addresses of its anchors: what of
\* the html source the word `unsubscribe` can stand in
SourceText(html) ==
    Concat([k \in 1..Len(html) |->
              get_text(html[k], <<>>)
                \o Concat([a \in 1..Len(find_all_a(html[k])) |->
                             find_all_a(html[k])[a].href])])

\* len(re.findall(r'<a\s+(?:[^>]*?\s+)?href=', html)): the anchors with an href
LinkCount(html) ==
    Len(Concat([k \in 1..Len(html) |->
                  [a \in 1..Len(find_all_a(html[k])) |-> find_all_a(html[k])[a].href]]))

\* is_newsletter(email_data)
is_newsletter(e) ==
    \/ "List-Unsubscribe" \in DOMAIN e.headers
    \/ "List-Unsubscribe-Post" \in DOMAIN e.headers
    \/ detect_newsletter_service(e.sender_email, e.headers) # None
    \/ Lower(HeaderGet(e.headers, "Precedence")) = Str("bulk")
    \/ /\ e.html # <<>>
       /\ Contains(Lower(SourceText(e.html)), Str("unsubscribe"))
       /\ LinkCount(e.html) > 3
    \/ SubjectPattern(Lower(e.subject))
    \/ Contains(Lower(HeaderGet(e.headers, "Via")), Str("substack"))

UpperChar(c) ==
    IF \E k \in 1..26 : LowerCase[k] = c
    THEN UpperCase[CHOOSE k \in 1..26 : LowerCase[k] = c]
    ELSE c

\* str.title(): a letter after a letter in lower case, any other letter in upper
Title(s) ==
    [i \in 1..Len(s) |->
        IF i > 1 /\ IsAlpha(s[i - 1]) THEN LowerChar(s[i]) ELSE UpperChar(s[i])]

\* extract_newsletter_name(email_data)
extract_newsletter_name(e) ==
    IF e.sender_name # <<>>
    THEN Strip(Remove(Remove(e.sender_name, Str(" via Substack")), Str(" Newsletter")))
    ELSE IF Contains(e.subject, Str(" - ")) THEN Strip(BeforeFirst(e.subject, Str(" - ")))
    ELSE IF Contains(e.subject, Str(": ")) THEN Strip(BeforeFirst(e.subject, Str(": ")))
    ELSE IF Contains(e.sender_email, <<"@">>)
    THEN Title(BeforeFirst(AfterFirst(e.sender_email, <<"@">>), <<".">>))
    ELSE Str("Unknown Newsletter")

SKIP_PATTERNS ==
    { Str("noreply"), Str("no-reply"), Str("donotreply"), Str("notifications@"),
      Str("alerts@"), Str("digest@google") }

SKIP_SUBJECTS ==
    { Str("verify your"), Str("reset password"), Str("confirm your"), Str("welcome to"),
      Str("receipt"), Str("invoice") }

\* should_skip_email(email_data)
should_skip_email(e) ==
    \/ \E pattern \in SKIP_PATTERNS : Contains(Lower(e.sender_email), pattern)
    \/ \E pattern \in SKIP_SUBJECTS : Contains(Lower(e.subject), pattern)

-----------------------------------------------------------------------------
(* The pipeline (src/src/main.py, src/src/gmail/client.py) *)

DIGEST_SECTION_ORDER == <<Str("Essays")>> \o CATEGORIZABLE_CATEGORIES \o <<Str("Other")>>

\* get_messages_since, lines 59-70 and 76-86: of the messages Gmail lists,
\* those whose id check_if_processed does not find, in list order
get_messages_since(d, msgs) ==
    SelectSeq(msgs, LAMBDA m : ~check_if_processed(d, m.gmail_message_id))

\* email['is_newsletter'] = b
Flagged(e, b) ==
    [ gmail_message_id   |-> e.gmail_message_id,
      subject            |-> e.subject,
      sender_email       |-> e.sender_email,
      sender_name        |-> e.sender_name,
      received_timestamp |-> e.received_timestamp,
      headers            |-> e.headers,
      html               |-> e.html,
      is_newsletter      |-> b ]

\* store_email(email) as one turn of the loop of step 2 uses it
Persisted(d, e, kept) ==
    [ db    |-> store_email(d, e).db,
      kept  |-> kept,
      calls |-> <<Stored(e, store_email(d, e).id)>> ]

\* the loop of step 2 with the newsletter not stored before it is appended
PersistAndGate_NoStore(d, e) ==
    IF check_if_processed(d, e.gmail_message_id) \/ should_skip_email(e)
    THEN [db |-> d, kept |-> <<>>, calls |-> <<>>]
    ELSE IF ~is_newsletter(e) THEN Persisted(d, Flagged(e, FALSE), <<>>)
    ELSE [db |-> d, kept |-> <<Flagged(e, TRUE)>>, calls |-> <<>>]

\* run, lines 106-120: one turn of the loop of step 2 for the email e; the
\* database after it, what it appends to newsletters, the store_email calls
PersistAndGate(d, e) ==
    IF check_if_processed(d, e.gmail_message_id) \/ should_skip_email(e)
    THEN [db |-> d, kept |-> <<>>, calls |-> <<>>]
    ELSE IF ~is_newsletter(e) THEN Persisted(d, Flagged(e, FALSE), <<>>)
    ELSE Persisted(d, Flagged(e, TRUE), <<Flagged(e, TRUE)>>)

\* lines 138-143: the articles extract_from_email returns for a newsletter
ArticlesOf(nl) ==
    extract_from_email(nl.html, extract_newsletter_name(nl), nl.sender_email,
                       nl.received_timestamp).result

\* lines 155-156
EssaysOf(all) == SelectSeq(all, LAMBDA a : a.article_type = "essay")
LinksOf(all) == SelectSeq(all, LAMBDA a : a.article_type = "link")

\* lines 188-195: the entry of an essay, summarised being what step 4 returned for it
EssayEntry(essay, summarised) ==
    [ title           |-> essay.title,
      url             |-> essay.url,
      summary         |-> summarised.summary,
      newsletter_name |-> essay.newsletter_name,
      article_type    |-> "essay" ]

\* lines 198-206
LinkEntry(link) ==
    [ title           |-> link.title,
      url             |-> link.url,
      blurb           |-> link.blurb,
      newsletter_name |-> link.newsletter_name,
      article_type    |-> "link" ]

\* line 199: category_map.get(i, 'Other')
CategoryOf(category_map, i) ==
    IF i \in DOMAIN category_map THEN category_map[i] ELSE Str("Other")

\* lines 183-206: what the two loops append to sections[name]
SectionEntries(name, essays_in, summarised, links, category_map) ==
    (IF name = Str("Essays")
     THEN [k \in 1..Len(summarised) |-> EssayEntry(essays_in[k], summarised[k])]
     ELSE <<>>)
    \o [k \in 1..Len(SelectSeq([i \in 1..Len(links) |-> i],
                               LAMBDA i : CategoryOf(category_map, i - 1) = name)) |->
          LinkEntry(links[SelectSeq([i \in 1..Len(links) |-> i],
                                    LAMBDA i : CategoryOf(category_map, i - 1) = name)[k]])]

\* lines 209-211 with the empty sections kept
Sections_KeepEmpty(essays_in, summarised, links, category_map) ==
    [k \in 1..Len(DIGEST_SECTION_ORDER) |->
        [ name    |-> DIGEST_SECTION_ORDER[k],
          entries |-> SectionEntries(DIGEST_SECTION_ORDER[k], essays_in, summarised,
                                     links, category_map) ]]

\* lines 183-211: the sections in display order, the empty ones stripped
Sections(essays_in, summarised, links, category_map) ==
    SelectSeq([k \in 1..Len(DIGEST_SECTION_ORDER) |->
                  [ name    |-> DIGEST_SECTION_ORDER[k],
                    entries |-> SectionEntries(DIGEST_SECTION_ORDER[k], essays_in,
                                               summarised, links, category_map) ]],
              LAMBDA section : section.entries # <<>>)

\* lines 213-218 (the date left out)
DigestData(all, nls, summarised, category_map) ==
    [ total_articles   |-> Len(all),
      newsletter_count |-> Len(nls),
      sections         |-> Sections(EssaysOf(all), summarised, LinksOf(all), category_map) ]

\* lines 199-200: sections[cat] raises KeyError for a cat that is no section
KeyError(links, category_map) ==
    \E i \in 0..(Len(links) - 1) :
        \A k \in 1..Len(DIGEST_SECTION_ORDER) :
            CategoryOf(category_map, i) # DIGEST_SECTION_ORDER[k]

\* most runs in one behaviour
MaxRuns == 2

\* most messages Gmail lists in one run
MaxMessages == 2

Received == Str("2026-01-05T08:00:00")

\* the emails of the mailbox: a Substack issue holding a link article, an issue
\* known by its subject holding an essay, one known by its header whose only
\* article is too short, a personal mail, a receipt
Mailbox ==
    { [ gmail_message_id   |-> Str("msg-001"),
        subject            |-> Str("Hello"),
        sender_email       |-> Str("news@substack.com"),
        sender_name        |-> Str("Tech Daily via Substack"),
        received_timestamp |-> Received,
        headers            |-> <<>>,
        html               |-> << Elem("h2", <<A(Story1, Str("Big News Story"))>>),
                                  Elem("p", <<Text(Filler(MIN_WORD_COUNT))>>) >> ],
      [ gmail_message_id   |-> Str("msg-002"),
        subject            |-> Str("Weekly  Update #12"),
        sender_email       |-> Str("jane@example.com"),
        sender_name        |-> <<>>,
        received_timestamp |-> Received,
        headers            |-> <<>>,
        html               |-> << Elem("h3", <<Text(Str("Thoughts on AI"))>>),
                                  Elem("p", <<Text(Filler(MIN_WORD_COUNT))>>) >> ],
      [ gmail_message_id   |-> Str("msg-003"),
        subject            |-> Str("Hello"),
        sender_email       |-> Str("jane@example.com"),
        sender_name        |-> Str("Jane"),
        received_timestamp |-> Received,
        headers            |-> ("List-Unsubscribe" :> Str("<mailto:leave@example.com>")),
        html               |-> << Elem("h3", <<Text(Str("Thoughts on AI"))>>),
                                  Elem("p", <<Text(Filler(MIN_WORD_COUNT - 1))>>) >> ],
      [ gmail_message_id   |-> Str("MSG-001"),
        subject            |-> Str("Lunch?"),
        sender_email       |-> Str("jane@example.com"),
        sender_name        |-> Str("Jane"),
        received_timestamp |-> Received,
        headers            |-> <<>>,
        html               |-> <<>> ],
      [ gmail_message_id   |-> Str("msg-999"),
        subject            |-> Str("Your receipt"),
        sender_email       |-> Str("noreply@shop.com"),
        sender_name        |-> Str("Shop"),
        received_timestamp |-> Received,
        headers            |-> <<>>,
        html               |-> <<>> ] }

\* what messages().list may answer: the messages of the time window
MessageLists == UNION {[1..n -> Mailbox] : n \in 0..MaxMessages}

\* the texts the model answers the summarizer with
RunSummaries == { Str("[\"Summary of essay one.\", \"Summary of essay two.\"]"),
                  Str("Only one line here.") }

\* the texts the model answers the categorizer with
RunCategories == { Str("{\"0\": \"Technology & AI\", \"1\": \"Business & Finance\", \"2\": \"Other\"}"),
                   Str("{\"1\": \"Science & Health\"}"),
                   Str("[\"Technology & AI\", \"Other\"]") }

InitRun ==
    /\ pc = <<"NewsletterDigestApp", "created">>
    /\ Passed(NoArgs)
    /\ NoRetry
    /\ NoApp
    /\ api_calls = 0
    /\ ran = <<>> /\ articles = <<>> /\ result = <<>> /\ ret = None

\* no run is under way
Idle == pc \in { <<"NewsletterDigestApp", "created">>, <<"run", "returned">>,
                 <<"run", "raised">> }

At(step) == pc = <<"run", step>>

\* run returns None or the path after self.db.close()
ReturnsClosed ==
    /\ closed' = TRUE
    /\ pc' = <<"run", "returned">>

\* step 1 with the emails got fetched, on a connection that is or is not closed
Fetched(msgs, got, was_closed) ==
    /\ runs' = runs + 1
    /\ messages' = msgs
    /\ raw_emails' = got
    /\ newsletters' = <<>>
    /\ todo' = <<>>
    /\ all_articles' = <<>>
    /\ digest_data' = NoDigest
    /\ IF got = <<>> THEN ReturnsClosed
       ELSE closed' = was_closed /\ pc' = <<"run", "step2">>
    /\ UNCHANGED <<args, outs, retry, client, db, stored, email_data, gmail_message_id,
                   extracted>>

\* run is called, on a new NewsletterDigestApp or on the one of the last run,
\* and fetches (lines 91-96); get_messages_since answers [] when Gmail lists
\* nothing and when the API raises (the second disjunct)
Fetch ==
    /\ Idle
    /\ runs < MaxRuns
    /\ \E fresh \in (IF closed THEN BOOLEAN ELSE {FALSE}) :
          \/ \E msgs \in MessageLists :
                Fetched(msgs, get_messages_since(db, msgs), closed /\ ~fresh)
          \/ Fetched(<<>>, <<>>, closed /\ ~fresh)

\* one turn of the loop of step 2 with the outcome r
Gated(r) ==
    /\ db' = r.db
    /\ stored' = stored \o r.calls
    /\ newsletters' = newsletters \o r.kept
    /\ raw_emails' = Tail(raw_emails)
    /\ UNCHANGED <<pc, args, outs, retry, client, email_data, gmail_message_id,
                   runs, closed, messages, todo, all_articles, extracted, digest_data>>

Step2 ==
    /\ At("step2")
    /\ raw_emails # <<>>
    /\ ~closed
    /\ Gated(PersistAndGate(db, Head(raw_emails)))

\* check_if_processed on the connection an earlier run closed raises
\* sqlite3.ProgrammingError
Step2OnClosed ==
    /\ At("step2")
    /\ raw_emails # <<>>
    /\ closed
    /\ pc' = <<"run", "raised">>
    /\ UNCHANGED <<args, outs, retry, client, app>>

\* lines 126-129
Step2Done ==
    /\ At("step2")
    /\ raw_emails = <<>>
    /\ IF newsletters = <<>>
       THEN ReturnsClosed /\ todo' = todo
       ELSE todo' = newsletters /\ pc' = <<"run", "step3">> /\ closed' = closed
    /\ UNCHANGED <<args, outs, retry, client, db, stored, email_data, gmail_message_id,
                   runs, messages, raw_emails, newsletters, all_articles, extracted,
                   digest_data>>

\* the note of a call of extract_from_email
Extracted(nl) == [run |-> runs, gmail_message_id |-> nl.gmail_message_id]

\* lines 137-147: one turn of the loop of step 3
Step3 ==
    /\ At("step3")
    /\ todo # <<>>
    /\ extracted' = Append(extracted, Extracted(Head(todo)))
    /\ all_articles' = all_articles \o ArticlesOf(Head(todo))
    /\ todo' = Tail(todo)
    /\ UNCHANGED <<pc, args, outs, retry, client, db, stored, email_data,
                   gmail_message_id, runs, closed, messages, raw_emails, newsletters,
                   digest_data>>

\* extract_from_email or store_article raises in a turn of the loop of step 3
Step3Raises ==
    /\ At("step3")
    /\ todo # <<>>
    /\ extracted' = Append(extracted, Extracted(Head(todo)))
    /\ pc' = <<"run", "raised">>
    /\ UNCHANGED <<args, outs, retry, client, db, stored, email_data,
                   gmail_message_id, runs, closed, messages, raw_emails, newsletters,
                   todo, all_articles, digest_data>>

\* lines 149-152
Step3Done ==
    /\ At("step3")
    /\ todo = <<>>
    /\ IF all_articles = <<>>
       THEN ReturnsClosed
       ELSE pc' = <<"run", "step4">> /\ closed' = closed
    /\ UNCHANGED <<args, outs, retry, client, db, stored, email_data, gmail_message_id,
                   runs, messages, raw_emails, newsletters, todo, all_articles,
                   extracted, digest_data>>

\* step 5 for the response text r: the category map, <<>> for no links
CategoryMap(links, r) ==
    IF links = <<>> THEN <<>> ELSE Filled(Categorizer_parse_response(r).map, Len(links))

\* steps 4 to 7 (lines 165-237) when the summarizer is answered with the text
\* r1 and the categorizer with r2 and neither raises
Digest ==
    /\ At("step4")
    /\ \E r1 \in RunSummaries, r2 \in RunCategories :
          /\ LinksOf(all_articles) # <<>> => Categorizer_parse_response(r2).raised = "none"
          /\ ~KeyError(LinksOf(all_articles), CategoryMap(LinksOf(all_articles), r2))
          /\ digest_data' = DigestData(all_articles, newsletters,
                                       summarize_essays(EssaysOf(all_articles), r1),
                                       CategoryMap(LinksOf(all_articles), r2))
    /\ ReturnsClosed
    /\ UNCHANGED <<args, outs, retry, client, db, stored, email_data, gmail_message_id,
                   runs, messages, raw_emails, newsletters, todo, all_articles, extracted>>

\* an exception leaves run in step 2 or later: the connection stays open
Raises ==
    /\ At("step2") \/ At("step3") \/ At("step4")
    /\ pc' = <<"run", "raised">>
    /\ UNCHANGED <<args, outs, retry, client, app>>

NextRun ==
    \/ Fetch
    \/ Step2
    \/ Step2OnClosed
    \/ Step2Done
    \/ Step3
    \/ Step3Raises
    \/ Step3Done
    \/ Digest
    \/ Raises

SpecRun == InitRun /\ [][NextRun]_vars

-----------------------------------------------------------------------------
(* Properties *)

Returned(fn) == pc = <<fn, "returned">>

\* the portion of an address after its first '@'
AfterAt(email) == Slice(email, Find(email, "@") + 1, Len(email))

\* needle occurs in hay when case is ignored
ContainsNoCase(hay, needle) == Contains(Lower(hay), Lower(needle))

\* C1: every article extract_from_email returns has word_count >= MIN_WORD_COUNT,
\* whichever strategy produced it.
C1_MinWordCount ==
    Returned("extract_from_email") =>
        \A k \in 1..Len(result) : result[k].word_count >= MIN_WORD_COUNT

\* a call whose filter kept one candidate and dropped another
C1_Witness ==
    /\ Returned("extract_from_email")
    /\ Len(result) >= 1
    /\ \E k \in 1..Len(articles) : articles[k].word_count < MIN_WORD_COUNT

\* C2: every returned article's article_type is 'essay' or 'link', and _classify
\* returns one of the two for every url, newsletter_email and force_essay.
C2_TypeIsEssayOrLink ==
    /\ Returned("extract_from_email") =>
          \A k \in 1..Len(result) : result[k].article_type \in {"essay", "link"}
    /\ Returned("_classify") => ret \in {"essay", "link"}

\* a call that returned both an essay and a link
C2_Witness ==
    /\ Returned("extract_from_email")
    /\ \E k \in 1..Len(result) : result[k].article_type = "essay"
    /\ \E k \in 1..Len(result) : result[k].article_type = "link"

\* C3: when newsletter_name contains an entry of ESSAY_NEWSLETTERS, case ignored,
\* every returned article is an essay, also those with an outbound url.
C3_ForceEssay ==
    ( /\ Returned("extract_from_email")
      /\ \E kw \in ESSAY_NEWSLETTERS : ContainsNoCase(newsletter_name, kw) )
    => \A k \in 1..Len(result) : result[k].article_type = "essay"

\* an essay newsletter, in other letter case than configured, whose returned
\* article has an outbound url that no other essay rule covers
C3_Witness ==
    /\ Returned("extract_from_email")
    /\ \E kw \in ESSAY_NEWSLETTERS :
          ContainsNoCase(newsletter_name, kw) /\ ~Contains(newsletter_name, kw)
    /\ newsletter_email = <<>>
    /\ \E k \in 1..Len(result) : result[k].url # <<>>

\* C4: _classify returns 'essay' for an article whose url is the empty string,
\* for every newsletter_email and both values of force_essay.
C4_NoUrlIsEssay ==
    (Returned("_classify") /\ article.url = <<>>) => ret = "essay"

\* the empty url with force_essay off and a sender that has a domain
C4_Witness ==
    /\ Returned("_classify")
    /\ article.url = <<>>
    /\ ~force_essay
    /\ Find(newsletter_email, "@") > 0
    /\ AfterAt(newsletter_email) # <<>>

\* C5: when newsletter_email has an '@' and the portion after it occurs in the
\* article's url, case ignored, _classify returns 'essay', also without force_essay.
C5_SelfHostedIsEssay ==
    ( /\ Returned("_classify")
      /\ Find(newsletter_email, "@") > 0
      /\ ContainsNoCase(article.url, AfterAt(newsletter_email)) )
    => ret = "essay"

\* a url on the sender's domain, spelled in another letter case, force_essay off
C5_Witness ==
    /\ Returned("_classify")
    /\ ~force_essay
    /\ article.url # <<>>
    /\ Find(newsletter_email, "@") > 0
    /\ AfterAt(newsletter_email) # <<>>
    /\ ContainsNoCase(article.url, AfterAt(newsletter_email))
    /\ ~Contains(article.url, AfterAt(newsletter_email))

\* C6: first match wins: _classify returns 'link' exactly when no essay rule
\* applies, that is force_essay is false, the url is non-empty and the sender's
\* domain does not occur in the url (or newsletter_email has no '@').
C6_LinkWhenNoRuleApplies ==
    Returned("_classify") =>
        ( ret = "link" <=>
            /\ ~force_essay
            /\ article.url # <<>>
            /\ ~( /\ Find(newsletter_email, "@") > 0
                  /\ ContainsNoCase(article.url, AfterAt(newsletter_email)) ) )

\* an outbound url, with a sender whose domain is not in it
C6_Witness ==
    /\ Returned("_classify")
    /\ ret = "link"
    /\ Find(newsletter_email, "@") > 0
    /\ AfterAt(newsletter_email) # <<>>

\* the html holds an element of the given tag, at any depth
HasTag(html, tag) ==
    \E k \in 1..Len(Descendants(Body(html))) :
        NodeAt(Body(html), Descendants(Body(html))[k]).name = tag

\* the html holds an anchor with an http(s) href, at any depth
HasAnchor(html) ==
    \E k \in 1..Len(find_all_a(Body(html))) :
        StartsWith(Strip(NodeAt(Body(html), find_all_a(Body(html))[k]).href), Str("http"))

\* the i-th top-level node is a heading and some later top-level node, before
\* the next heading, has text
HeadingWithText(html, i) ==
    /\ html[i].name \in {"h2", "h3"}
    /\ \E j \in (i + 1)..Len(html) :
          /\ \A m \in (i + 1)..j : html[m].name \notin {"h2", "h3"}
          /\ Strings(html[j]) # <<>>

\* C7 as stated: whenever the html has both an <h2> and anchors, the result holds
\* section-based articles only.
C7_SectionsWheneverH2 ==
    ( /\ Returned("extract_from_email")
      /\ HasTag(html_content, "h2")
      /\ HasAnchor(html_content) )
    => (ran = <<"sections">> \/ result = <<>>)

\* C7 amended: whenever some top-level h2/h3 of the body is followed, before the
\* next top-level heading, by content with at least one word, only the
\* section-based strategy runs and every returned article is one of its
\* sections, whatever anchors the html holds.
C7_SectionsWhenBucketHasText ==
    ( /\ Returned("extract_from_email")
      /\ \E i \in 1..Len(html_content) : HeadingWithText(html_content, i) )
    => /\ ran = <<"sections">>
       /\ \A k \in 1..Len(result) :
             \E i \in 1..Len(html_content) :
                /\ HeadingWithText(html_content, i)
                /\ result[k].title = get_text(html_content[i], <<>>)

\* a heading with text, in an html whose anchors the link-based strategy would
\* have accepted, and a returned article
C7_Witness ==
    /\ Returned("extract_from_email")
    /\ \E i \in 1..Len(html_content) : HeadingWithText(html_content, i)
    /\ _extract_by_links(Body(html_content)) # <<>>
    /\ result # <<>>

\* C8: with the empty string as html, extract_from_email returns the empty list
\* and runs no strategy, whatever the other arguments.
C8_EmptyHtml ==
    (Returned("extract_from_email") /\ html_content = <<>>)
    => (result = <<>> /\ ran = <<>> /\ articles = <<>>)

\* the empty html with the other arguments set
C8_Witness ==
    /\ Returned("extract_from_email")
    /\ html_content = <<>>
    /\ newsletter_name # <<>>
    /\ newsletter_email # <<>>
    /\ received_timestamp # <<>>

\* the URL has a path segment 'disclaimer', 'privacy' or 'unsubscribe', or its
\* host is twitter.com or facebook.com or a subdomain of either
NoiseShaped(p) ==
    \/ \E k \in 1..Len(p.segs) :
          p.segs[k] \in {Str("disclaimer"), Str("privacy"), Str("unsubscribe")}
    \/ \E d \in {Str("twitter.com"), Str("facebook.com")} :
          \/ Lower(p.host) = d
          \/ /\ Len(p.host) > Len(d)
             /\ Slice(Lower(p.host), Len(p.host) - Len(d), Len(p.host)) = <<".">> \o d

\* C10: _is_noise_url flags every such URL, whatever the anchor text, and no
\* article of the link-based strategy has such a URL.
C10_NoiseUrls ==
    /\ Returned("_is_noise_url") =>
          \A p \in UrlParts : (NoiseShaped(p) /\ url = BuildUrl(p)) => ret = TRUE
    /\ (Returned("extract_from_email") /\ ran = <<"sections", "links">>) =>
          \A k \in 1..Len(articles) :
             \A p \in UrlParts : NoiseShaped(p) => articles[k].url # BuildUrl(p)

\* a link-based result from an html that also holds an anchor to such a URL
\* whose anchor text is no noise phrase
C10_Witness ==
    /\ Returned("extract_from_email")
    /\ ran = <<"sections", "links">>
    /\ articles # <<>>
    /\ \E k \in 1..Len(find_all_a(Body(html_content))) :
          LET a == NodeAt(Body(html_content), find_all_a(Body(html_content))[k])
          IN  /\ \E p \in UrlParts : NoiseShaped(p) /\ Strip(a.href) = BuildUrl(p)
              /\ Len(get_text(a, <<>>)) >= 10
              /\ \A phrase \in NOISE_ANCHOR_PHRASES :
                    ~Contains(Lower(get_text(a, <<>>)), phrase)

\* C11: _score_link returns 0 exactly when _is_noise_url returns true on the same
\* url and anchor text, and at least the base point 1 for every pair that is not
\* noise.
C11_ScoreZeroIffNoise ==
    Returned("_score_link") =>
        /\ ret \in Nat
        /\ (ret = 0) <=> _is_noise_url(url, anchor_text)
        /\ ~_is_noise_url(url, anchor_text) => ret >= 1

\* a pair that is no noise and earns nothing beyond the base point, and so scores 1
C11_Witness ==
    /\ Returned("_score_link")
    /\ ~_is_noise_url(url, anchor_text)
    /\ ret = 1

\* s begins with prefix when case is ignored
StartsWithNoCase(s, prefix) == StartsWith(Lower(s), Lower(prefix))

\* s without its first n characters
DropFirst(s, n) == Slice(s, n + 1, Len(s))

\* C12 as stated: when content begins with the title, case ignored, the blurb is
\* the rest of content whitespace-collapsed, and when it does not, the blurb is
\* the whole content whitespace-collapsed.
C12_TitleStripped ==
    Returned("_extract_blurb") =>
        IF StartsWithNoCase(arg_content, arg_title)
        THEN ret = CollapseWs(DropFirst(arg_content, Len(arg_title)))
        ELSE ret = CollapseWs(arg_content)

\* blurb is what _extract_blurb makes of the collapsed text full: full itself when
\* it has at most MAX_BLURB_CHARS characters, else a prefix of full of at most
\* MAX_BLURB_CHARS characters followed by a space and the ellipsis
BlurbFrom(full, blurb) ==
    IF Len(full) <= MAX_BLURB_CHARS THEN blurb = full
    ELSE /\ Len(blurb) >= 2
         /\ Len(blurb) - 2 <= MAX_BLURB_CHARS
         /\ DropFirst(blurb, Len(blurb) - 2) = <<" ", Ellipsis>>
         /\ StartsWith(full, Slice(blurb, 1, Len(blurb) - 2))

\* the part of the stripped content c the blurb is derived from
AfterTitle(c, t) == IF StartsWithNoCase(c, t) THEN DropFirst(c, Len(t)) ELSE c

\* C12 amended: with surrounding whitespace trimmed from content, the blurb is
\* derived from what follows the title when the trimmed content begins with it,
\* case ignored, and from the whole trimmed content when it does not; that text
\* is whitespace-collapsed and is the blurb unchanged when it has at most
\* MAX_BLURB_CHARS characters, and cut to a prefix with the ellipsis when longer.
C12_TitleStrippedThenTrimmed ==
    Returned("_extract_blurb") =>
        BlurbFrom(CollapseWs(AfterTitle(Strip(arg_content), arg_title)), ret)

\* a content that repeats the title in another letter case, followed by a blurb
C12_Witness ==
    /\ Returned("_extract_blurb")
    /\ arg_title # <<>>
    /\ StartsWithNoCase(arg_content, arg_title)
    /\ ~StartsWith(arg_content, arg_title)
    /\ ret # <<>>
    /\ Len(ret) < Len(arg_content) - Len(arg_title)

\* C13: every blurb has at most MAX_BLURB_CHARS characters, the ellipsis counted:
\* those _extract_blurb returns, those of the dicts _finalise returns and those of
\* the articles extract_from_email returns.
C13_BlurbAtMost600 ==
    /\ Returned("_extract_blurb") => Len(ret) <= MAX_BLURB_CHARS
    /\ Returned("_finalise") => Len(ret.blurb) <= MAX_BLURB_CHARS
    /\ Returned("extract_from_email") =>
          \A k \in 1..Len(result) : Len(result[k].blurb) <= MAX_BLURB_CHARS

\* s has no two whitespace characters in a row
NoWhitespaceRun(s) == \A i \in 1..(Len(s) - 1) : ~(IsSpace(s[i]) /\ IsSpace(s[i + 1]))

\* C14: the content of every article extract_from_email returns has no run of two
\* or more whitespace characters, whichever strategy produced it.
C14_ContentNormalised ==
    Returned("extract_from_email") =>
        \A k \in 1..Len(result) : NoWhitespaceRun(result[k].content)

\* C15: every article extract_from_email returns has a non-empty title.
C15_TitleNonEmpty ==
    Returned("extract_from_email") =>
        \A k \in 1..Len(result) : result[k].title # <<>>

InCallClaude == pc[1] = "call_claude"

\* C16: client.messages.create is invoked at most MAX_RETRIES times; an attempt
\* after the first follows a RateLimitError of the one before; and the call ends
\* by returning, by raising the RateLimitError of attempt MAX_RETRIES, or by
\* raising the other exception an attempt raised, without a sleep after it.
C16_RetryProtocol ==
    InCallClaude =>
        /\ calls <= MAX_RETRIES
        /\ (pc[2] = "create" /\ calls > 0) => exc.type = "RateLimitError"
        /\ pc[2] = "raised" =>
              \/ raised = "RateLimitError" /\ calls = MAX_RETRIES
              \/ raised = "OtherError" /\ exc.type = "OtherError" /\ slept = calls - 1

\* C17: every wait call_claude sleeps is at most MAX_DELAY_SECS seconds, jitter
\* applied, whether it comes from the Retry-After header or from the back-off.
C17_WaitAtMostMax ==
    InCallClaude => wait <= MAX_DELAY_SECS * 100

\* a Python str in this model: a finite sequence of characters
IsText(x) == DOMAIN x = 1..Len(x)

\* the record out is the record essay with a text under 'summary' added
EssayPlusSummary(out, essay) ==
    /\ DOMAIN out = DOMAIN essay \cup {"summary"}
    /\ \A f \in DOMAIN essay : out[f] = essay[f]
    /\ IsText(out.summary)

\* C18: summarize_essays returns one record for each essay, in input order, each
\* the input record plus a text under 'summary', and for no essays returns the
\* empty list without a call of the model; _parse_response returns exactly
\* expected_count texts for every raw text.
C18_OneSummaryEach ==
    /\ Returned("summarize_essays") =>
          /\ Len(ret) = Len(essays)
          /\ \A k \in 1..Len(essays) : EssayPlusSummary(ret[k], essays[k])
          /\ essays = <<>> => ret = <<>> /\ api_calls = 0
    /\ Returned("DigestSummarizer._parse_response") =>
          /\ Len(ret) = expected_count
          /\ \A k \in 1..Len(ret) : IsText(ret[k])

\* numbered lines, one more than asked for, are trimmed to the count
C18_Witness ==
    /\ Returned("DigestSummarizer._parse_response")
    /\ expected_count = 2
    /\ Len(CleanedLines(raw)) = 3
    /\ ret = <<Str("First summary."), Str("Second summary.")>>

\* the text r is not a JSON array of n elements, code fence removed
BatchParseFails(r, n) ==
    ~(/\ json_loads(Unfenced(r)).ok
      /\ json_loads(Unfenced(r)).val.t = "list"
      /\ Len(json_loads(Unfenced(r)).val.v) = n)

\* C19: when the response is not a JSON array with one element for each essay,
\* summarize_essays returns, and every essay in its result has the summary
\* "Summary unavailable.".
C19_AllUnavailableOnFailure ==
    (/\ Returned("summarize_essays")
     /\ essays # <<>>
     /\ BatchParseFails(raw, Len(essays))) =>
        /\ Len(ret) = Len(essays)
        /\ \A k \in 1..Len(ret) : ret[k].summary = Str("Summary unavailable.")

\* C20: for every response text, categorize_articles returns a map whose keys
\* are exactly 0..n-1 for n articles and whose every value is one of
\* CATEGORIZABLE_CATEGORIES or 'Other'.
C20_EveryIndexCategorised ==
    (/\ pc[1] = "categorize_articles"
     /\ pc[2] # "called"
     /\ raised \notin {"RateLimitError", "OtherError"}) =>
        /\ Returned("categorize_articles")
        /\ DOMAIN ret = 0..(Len(link_articles) - 1)
        /\ \A i \in DOMAIN ret : ret[i] \in allowed

\* the positions in stored at which a message id is stored for the first time
FirstStores ==
    {k \in 1..Len(stored) :
        \A j \in 1..(k - 1) : stored[j].gmail_message_id # stored[k].gmail_message_id}

\* the position in stored of the first call that stored the message id g
FirstStoreOf(g) == CHOOSE k \in FirstStores : stored[k].gmail_message_id = g

\* the id the first call that stored g returned
FirstIdOf(g) == stored[FirstStoreOf(g)].id

\* C21: check_if_processed(id) is true exactly for the message ids stored so
\* far; every stored message id has one row, which holds the data of the first
\* call that stored it; and store_email returns the id that row was given then.
C21_StoredExactlyOnce ==
    /\ Returned("check_if_processed") =>
          (ret <=> \E k \in 1..Len(stored) : stored[k].gmail_message_id = gmail_message_id)
    /\ OnDatabase =>
          /\ Len(db.processed_emails) = Cardinality(FirstStores)
          /\ \A k \in FirstStores :
                \E r \in 1..Len(db.processed_emails) :
                    db.processed_emails[r] = Row(FirstIdOf(stored[k].gmail_message_id), stored[k])
          /\ \A j, k \in FirstStores : j # k => stored[j].id # stored[k].id
    /\ Returned("store_email") => ret = FirstIdOf(email_data.gmail_message_id)

\* a message id is stored a second time with other data, after another one
C21_Witness ==
    /\ Returned("store_email")
    /\ Len(stored) = 3
    /\ stored[1].gmail_message_id = stored[3].gmail_message_id
    /\ stored[2].gmail_message_id # stored[1].gmail_message_id
    /\ stored[1].subject # stored[3].subject
    /\ ret = 1
    /\ Len(db.processed_emails) = 2

\* what the strategy of this name returns for the document html
StrategyOutput(name, html) ==
    IF name = "sections" THEN _extract_by_sections(BeautifulSoup(html))
    ELSE IF name = "links" THEN _extract_by_links(BeautifulSoup(html))
    ELSE _extract_fallback(BeautifulSoup(html))

\* C22: the strategies run in the order sections, links, fallback; each one
\* after the first runs only if every one before it returned the empty list;
\* and the candidates stamped are the output of the last one run, alone.
C22_PriorityChain ==
    (Returned("extract_from_email") /\ html_content # <<>>) =>
        /\ ran \in {<<"sections">>, <<"sections", "links">>, <<"sections", "links", "fallback">>}
        /\ \A k \in 2..Len(ran) : \A j \in 1..(k - 1) : StrategyOutput(ran[j], html_content) = <<>>
        /\ articles = StrategyOutput(ran[Len(ran)], html_content)
        /\ Len(ran) < 3 => articles # <<>>

\* the link-based strategy is the one used, though the fallback would give an
\* article as well
C22_Witness ==
    /\ Returned("extract_from_email")
    /\ ran = <<"sections", "links">>
    /\ articles # <<>>
    /\ StrategyOutput("fallback", html_content) # <<>>
    /\ HasTag(html_content, "h2")

\* the positions of the h2 and h3 among the children of <body>
HeadingsOf(children) ==
    SelectSeq([k \in 1..Len(children) |-> k], LAMBDA k : children[k].name \in {"h2", "h3"})

\* the position of the first heading after position i, or one past the last child
NextHeading(children, i) ==
    IF \E j \in (i + 1)..Len(children) : children[j].name \in {"h2", "h3"}
    THEN CHOOSE j \in (i + 1)..Len(children) :
            /\ children[j].name \in {"h2", "h3"}
            /\ \A k \in (i + 1)..(j - 1) : children[k].name \notin {"h2", "h3"}
    ELSE Len(children) + 1

\* the text of a child of <body>
TextOf(n) == IF n.name = TextNode THEN n.text ELSE get_text(n, <<" ">>)

\* the text between the heading at position i and the next heading, in order,
\* whitespace normalised
TextAfterHeading(children, i) ==
    CollapseWs(Join([k \in 1..(NextHeading(children, i) - i - 1) |-> TextOf(children[i + k])],
                    <<" ">>))

\* the headings whose text up to the next heading has a word
HeadingsWithText(children) ==
    SelectSeq(HeadingsOf(children), LAMBDA i : WordCount(TextAfterHeading(children, i)) > 0)

\* C23: the section-based scan returns one article for each top-level h2/h3
\* that is followed, before the next heading, by at least one word, in heading
\* order; the article has the heading's text as title and as content the text
\* of the children between its heading and the next; children before the first
\* heading and headings followed by no word give no article.
C23_OneArticlePerHeading ==
    Returned("_extract_by_sections") =>
        /\ Len(ret) = Len(HeadingsWithText(arg_soup.kids))
        /\ \A k \in 1..Len(ret) :
              /\ ret[k].title = get_text(arg_soup.kids[HeadingsWithText(arg_soup.kids)[k]], <<>>)
              /\ ret[k].content = TextAfterHeading(arg_soup.kids, HeadingsWithText(arg_soup.kids)[k])
              /\ ret[k].word_count > 0

\* text before the first heading, a section of two children, and a heading
\* followed by nothing
C23_Witness ==
    /\ Returned("_extract_by_sections")
    /\ HeadingsOf(arg_soup.kids) = <<2, 4>>
    /\ arg_soup.kids[1] = Text(Str(" intro text "))
    /\ arg_soup.kids[3].name = "p"
    /\ Len(ret) = 1
    /\ ret[1].content = Str("some words Read more A Deep Dive into Markets")

\* the positions after the heading at i and before the next heading that hold
\* an element with a best link
BlocksWithLink(children, i) ==
    {j \in (i + 1)..(NextHeading(children, i) - 1) :
        children[j].name # TextNode /\ _best_link_in(children[j]) # None}

\* the url the bucket of the heading at position i is to have
UrlOfSection(children, i) ==
    IF _best_link_in(children[i]) # None THEN _best_link_in(children[i])
    ELSE IF BlocksWithLink(children, i) = {} THEN <<>>
    ELSE _best_link_in(children[CHOOSE j \in BlocksWithLink(children, i) :
                                    \A k \in BlocksWithLink(children, i) : j <= k])

\* C24: the url of a section's article is the best link of its heading where
\* the heading has one, else the best link of the first block before the next
\* heading that has one, else the empty string; later blocks never replace it.
C24_UrlOfFirstLink ==
    Returned("_extract_by_sections") =>
        \A k \in 1..Len(ret) :
            ret[k].url = UrlOfSection(arg_soup.kids, HeadingsWithText(arg_soup.kids)[k])

\* a heading without link, then a block with none but a noise link, then two
\* blocks with links: the url is that of the first of the two
C24_Witness ==
    /\ Returned("_extract_by_sections")
    /\ Len(arg_soup.kids) = 4
    /\ arg_soup.kids[1] = Elem("h2", <<Text(Str("First Heading"))>>)
    /\ arg_soup.kids[2].name = "div"
    /\ arg_soup.kids[3].name = "td"
    /\ arg_soup.kids[4].name = "p"
    /\ Len(ret) = 1
    /\ ret[1].url = DeepDive
    /\ _best_link_in(arg_soup.kids[4]) \notin {None, DeepDive}

\* the anchors of the document, in document order, as [url, text]
AnchorsOf(sp) ==
    [k \in 1..Len(find_all_a(sp)) |->
        [url  |-> Strip(NodeAt(sp, find_all_a(sp)[k]).href),
         text |-> get_text(NodeAt(sp, find_all_a(sp)[k]), <<>>)]]

\* an http(s) anchor that is no noise and has a text of 10 characters or more
Eligible(a) ==
    /\ StartsWith(a.url, Str("http"))
    /\ ~_is_noise_url(a.url, a.text)
    /\ Len(a.text) >= 10

\* the urls of the eligible anchors, each at its first eligible anchor
FirstEligible(anchors) ==
    SelectSeq(anchors,
              LAMBDA a : Eligible(a) /\ a = anchors[CHOOSE k \in 1..Len(anchors) :
                            /\ anchors[k].url = a.url /\ Eligible(anchors[k])
                            /\ \A j \in 1..(k - 1) :
                                  ~(anchors[j].url = a.url /\ Eligible(anchors[j]))])

\* C25: the link-based strategy returns at most one article for a url, and
\* every url of an http(s) anchor that is no noise and has a text of 10
\* characters or more has an article, built from the first such anchor.
C25_ArticlePerEligibleUrl ==
    Returned("_extract_by_links") =>
        /\ \A j, k \in 1..Len(ret) : ret[j].url = ret[k].url => j = k
        /\ \A k \in 1..Len(AnchorsOf(arg_soup)) :
              Eligible(AnchorsOf(arg_soup)[k]) =>
                  \E j \in 1..Len(ret) :
                      /\ ret[j].url = AnchorsOf(arg_soup)[k].url
                      /\ \E f \in 1..Len(FirstEligible(AnchorsOf(arg_soup))) :
                            /\ FirstEligible(AnchorsOf(arg_soup))[f].url = ret[j].url
                            /\ FirstEligible(AnchorsOf(arg_soup))[f].text = ret[j].title

\* the lines of the text of the document
VisibleLines(sp) == SplitOn(get_text(sp, <<" ">>), "\n")

\* the line is a title: more than 10 and fewer than 120 characters
TitleLength(line) == 10 < Len(Strip(line)) /\ Len(Strip(line)) < 120

\* C26: the fallback returns one article, with the empty url, whose title is
\* the first line of the document's text that has more than 10 and fewer than
\* 120 characters, and 'Newsletter' when no line has.
C26_TitleIsFirstFittingLine ==
    Returned("_extract_fallback") =>
        /\ Len(ret) = 1
        /\ ret[1].url = <<>>
        /\ IF \E k \in 1..Len(VisibleLines(arg_soup)) : TitleLength(VisibleLines(arg_soup)[k])
           THEN \E k \in 1..Len(VisibleLines(arg_soup)) :
                   /\ TitleLength(VisibleLines(arg_soup)[k])
                   /\ \A j \in 1..(k - 1) : ~TitleLength(VisibleLines(arg_soup)[j])
                   /\ ret[1].title = Strip(VisibleLines(arg_soup)[k])
           ELSE ret[1].title = Str("Newsletter")

\* the http(s) anchors of positive score among anchors, in scan order
Scoring(anchors) ==
    SelectSeq(anchors,
              LAMBDA a : StartsWith(a.url, Str("http")) /\ _score_link(a.url, a.text) > 0)

\* C27: _best_link_in returns None when the element has no http(s) anchor of
\* positive score, and else the url of the first anchor, in scan order, whose
\* score no other such anchor exceeds.
C27_FirstOfHighestScore ==
    Returned("_best_link_in") =>
        IF Scoring(AnchorsOf(arg_element)) = <<>> THEN ret = None
        ELSE \E k \in 1..Len(Scoring(AnchorsOf(arg_element))) :
                /\ ret = Scoring(AnchorsOf(arg_element))[k].url
                /\ \A j \in 1..Len(Scoring(AnchorsOf(arg_element))) :
                      /\ _score_link(Scoring(AnchorsOf(arg_element))[j].url,
                                     Scoring(AnchorsOf(arg_element))[j].text)
                           <= _score_link(ret, Scoring(AnchorsOf(arg_element))[k].text)
                      /\ j < k =>
                           _score_link(Scoring(AnchorsOf(arg_element))[j].url,
                                       Scoring(AnchorsOf(arg_element))[j].text)
                             < _score_link(ret, Scoring(AnchorsOf(arg_element))[k].text)

\* two anchors of equal score after a noise link: the first of the two is kept
C27_Witness ==
    /\ Returned("_best_link_in")
    /\ arg_element.name = "div"
    /\ Len(arg_element.kids) = 3
    /\ arg_element.kids[1] = A(Unsub, Str("Leave this list now"))
    /\ arg_element.kids[2] = A(DeepDive, Str("Another Headline"))
    /\ arg_element.kids[3] = A(Story1, Str("Big News Story"))
    /\ _score_link(DeepDive, Str("Another Headline")) = _score_link(Story1, Str("Big News Story"))
    /\ ret = DeepDive

\* C28: over all runs, no gmail_message_id is handed to extract_from_email
\* twice (none that awaits extraction was extracted before), and an id is in
\* processed_emails when the newsletter awaits extraction and ever after.
C28_ExtractedAtMostOnce ==
    /\ \A i, j \in 1..Len(extracted) :
          extracted[i].gmail_message_id = extracted[j].gmail_message_id => i = j
    /\ \A i \in 1..Len(extracted) : check_if_processed(db, extracted[i].gmail_message_id)
    /\ \A k \in 1..Len(newsletters) : check_if_processed(db, newsletters[k].gmail_message_id)
    /\ At("step3") =>
          \A k \in 1..Len(todo), i \in 1..Len(extracted) :
              extracted[i].gmail_message_id # todo[k].gmail_message_id

\* a newsletter extracted in the first run is listed again in the second, with
\* a new one, and only the new one is extracted; the first run had raised
C28_Witness ==
    /\ runs = 2
    /\ At("step3")
    /\ todo = <<>>
    /\ Len(messages) = 2
    /\ messages[1].gmail_message_id = Str("msg-001")
    /\ messages[2].gmail_message_id = Str("msg-002")
    /\ extracted = << [run |-> 1, gmail_message_id |-> Str("msg-001")],
                      [run |-> 2, gmail_message_id |-> Str("msg-002")] >>

\* the entries of all the sections, in display order
AllEntries(sections) == Concat([k \in 1..Len(sections) |-> sections[k].entries])

\* what an article and its entry in the digest have in common
Key(x) == <<x.title, x.url, x.newsletter_name, x.article_type>>

\* how often the key y occurs among xs
Count(xs, y) == Cardinality({i \in 1..Len(xs) : Key(xs[i]) = y})

\* C29: in the payload of a run that assembled a digest, every extracted
\* article has its entry in exactly one section (an essay in Essays, a link in
\* a section of another name), every section name is one of
\* DIGEST_SECTION_ORDER and occurs once, the entries of all sections number
\* total_articles, and no section is empty.
C29_EachArticleInOneSection ==
    digest_data # NoDigest =>
        /\ digest_data.total_articles = Len(all_articles)
        /\ Len(AllEntries(digest_data.sections)) = digest_data.total_articles
        /\ \A k \in 1..Len(digest_data.sections) :
              /\ digest_data.sections[k].entries # <<>>
              /\ \E n \in 1..Len(DIGEST_SECTION_ORDER) :
                    digest_data.sections[k].name = DIGEST_SECTION_ORDER[n]
              /\ \A j \in 1..Len(digest_data.sections) :
                    digest_data.sections[j].name = digest_data.sections[k].name => j = k
              /\ \A e \in 1..Len(digest_data.sections[k].entries) :
                    digest_data.sections[k].entries[e].article_type = "essay"
                        <=> digest_data.sections[k].name = Str("Essays")
        /\ \A i \in 1..Len(all_articles) :
              Count(AllEntries(digest_data.sections), Key(all_articles[i]))
                  = Count(all_articles, Key(all_articles[i]))

\* a digest of an essay and a link: two of the seven sections are kept
C29_Witness ==
    /\ At("returned")
    /\ digest_data # NoDigest
    /\ digest_data.total_articles = 2
    /\ Len(digest_data.sections) = 2
    /\ digest_data.sections[1].name = Str("Essays")
    /\ digest_data.sections[2].name = Str("Technology & AI")
    /\ Len(digest_data.sections[2].entries) = 1

\* the returned article r is the candidate a with the metadata added
Same(r, a) ==
    /\ r.title = a.title
    /\ r.url = a.url
    /\ r.content = a.content
    /\ r.word_count = a.word_count

\* rs is made of candidates of cands, in their order
RECURSIVE Embeds(_, _)
Embeds(rs, cands) ==
    IF rs = <<>> THEN TRUE
    ELSE IF cands = <<>> THEN FALSE
    ELSE IF Same(Head(rs), Head(cands)) THEN Embeds(Tail(rs), Tail(cands))
    ELSE Embeds(rs, Tail(cands))

\* C30: the strategy last run is the only one run whose raw output is not
\* empty, whatever the word counts; the returned list is made of candidates of
\* that strategy in their order, namely those of MIN_WORD_COUNT words or more;
\* it is empty when all are below, and no later strategy is run then.
C30_FilterAfterChoice ==
    (Returned("extract_from_email") /\ html_content # <<>>) =>
        /\ \A k \in 1..Len(ran) :
              StrategyOutput(ran[k], html_content) # <<>> => k = Len(ran)
        /\ Embeds(result, StrategyOutput(ran[Len(ran)], html_content))
        /\ Len(result) =
              Len(SelectSeq(StrategyOutput(ran[Len(ran)], html_content),
                            LAMBDA a : a.word_count >= MIN_WORD_COUNT))
        /\ (\A k \in 1..Len(StrategyOutput(ran[Len(ran)], html_content)) :
               StrategyOutput(ran[Len(ran)], html_content)[k].word_count < MIN_WORD_COUNT)
              => result = <<>>

\* the one section is a word short and nothing is returned, though the
\* fallback would give an article of enough words
C30_Witness ==
    /\ Returned("extract_from_email")
    /\ ran = <<"sections">>
    /\ Len(articles) = 1
    /\ articles[1].word_count = MIN_WORD_COUNT - 1
    /\ result = <<>>
    /\ StrategyOutput("fallback", html_content) # <<>>
    /\ StrategyOutput("fallback", html_content)[1].word_count >= MIN_WORD_COUNT

====
